---- MODULE Spec2Model ----
(***************************************************************************)
(* The in-process document store of the books scraper API                  *)
(* (src/database.py): the module-level list _memory_storage, the           *)
(* MemoryCollection operations over it, the MemoryCursor and the           *)
(* MemoryAggregationCursor, the choice of the backend in connect_to_mongo, *)
(* the snapshot file written by close_mongo_connection, the scraper's     *)
(* saves (src/scraper.py), clean_incomplete_books, and the handlers of     *)
(* src/main.py for books and messages.                                     *)
(*                                                                         *)
(* A document is a function from the field names it carries to their       *)
(* values (a Python dict).  Text values are sequences of one-character     *)
(* strings, numbers are integers.  A Python dict used as a filter is a     *)
(* sequence of <<key, condition>> pairs in the dict's iteration order.     *)
(* An optional argument is a sequence of length at most one.               *)
(***************************************************************************)
EXTENDS Integers, Sequences, FiniteSets, TLC

VARIABLES storage,   \* _memory_storage: the ordered list of stored documents
          origin,    \* history: for each stored document, how it was inserted
          now,       \* the wall clock, in whole seconds
          last,      \* history: the last operation, its arguments and result
          use_memory_storage,   \* _use_memory_storage: the in-process backend is active
          client,               \* database.client: None until a connect creates it
          books_data_json,      \* the snapshot file books_data.json
          messages_list,        \* messages_list of src/main.py
          mongo_books,          \* the documents of the external books collection
          requests              \* the requests in flight, each at its position

\* the state of the API layer and of the external backend
api == <<messages_list, mongo_books, requests>>

\* the state outside the store: the backend choice, the snapshot file, the API
process == <<use_memory_storage, client, books_data_json, api>>

vars == <<storage, origin, now, last, process>>

(***************************************************************************)
(* Bounds of the model.                                                    *)
(***************************************************************************)
MaxStore == 3
MaxTime == 1

(***************************************************************************)
(* Python values.                                                          *)
(***************************************************************************)
None == << >>
Some(x) == <<x>>
IsNone(o) == Len(o) = 0
The(o) == o[1]

Has(d, f) == f \in DOMAIN d

\* dict[f] = v, dict.update({f: v})
SetField(d, f, v) == [k \in (DOMAIN d) \cup {f} |-> IF k = f THEN v ELSE d[k]]

\* dict.update(u)
DictUpdate(d, u) ==
    [k \in (DOMAIN d) \cup (DOMAIN u) |-> IF k \in DOMAIN u THEN u[k] ELSE d[k]]

\* dict.get(f, default)
Get(d, f, default) == IF Has(d, f) THEN d[f] ELSE default

Range(s) == {s[i] : i \in DOMAIN s}

Reverse(s) == [i \in 1..Len(s) |-> s[Len(s) + 1 - i]]

\* s[start:end] of a Python list, 0-based, end exclusive, for 0 <= start
Slice(s, start, end) ==
    LET hi == IF end < Len(s) THEN end ELSE Len(s)
    IN  IF start >= hi THEN << >> ELSE SubSeq(s, start + 1, hi)

\* s[start:] of a Python list
SliceFrom(s, start) == Slice(s, start, Len(s))

DigitChars == <<"0", "1", "2", "3", "4", "5", "6", "7", "8", "9">>

\* str(n) for an integer n >= 0
RECURSIVE StrInt(_)
StrInt(n) ==
    IF n < 10 THEN <<DigitChars[n + 1]>>
    ELSE StrInt(n \div 10) \o <<DigitChars[(n % 10) + 1]>>

\* the fields whose values are numbers; every other field holds text
NumFields == {"price", "star_rating"}

\* str(item[key]): the price is a float, the star rating an int
StrOf(key, v) ==
    IF key = "price" THEN StrInt(v) \o <<".", "0">>
    ELSE IF key = "star_rating" THEN StrInt(v)
    ELSE v

(***************************************************************************)
(* Identifiers: f"mem_{len(_memory_storage)}_{int(datetime.now().timestamp())}" *)
(***************************************************************************)
MemId(n, t) == <<"m", "e", "m", "_">> \o StrInt(n) \o <<"_">> \o StrInt(t)

(***************************************************************************)
(* re.search(pattern, text, flags) for patterns without metacharacters:    *)
(* the pattern occurs in the text as a contiguous run, letters compared    *)
(* without case when flags is re.IGNORECASE.                               *)
(***************************************************************************)
LowerOf(c) ==
    CASE c = "A" -> "a" [] c = "B" -> "b" [] c = "C" -> "c" [] c = "E" -> "e"
      [] c = "I" -> "i" [] c = "K" -> "k" [] c = "O" -> "o" [] c = "N" -> "n"
      [] OTHER -> c

Fold(s, ignorecase) == IF ignorecase THEN [i \in 1..Len(s) |-> LowerOf(s[i])] ELSE s

ReSearch(pattern, text, ignorecase) ==
    LET p == Fold(pattern, ignorecase)
        t == Fold(text, ignorecase)
    IN  \E i \in 0..(Len(t) - Len(p)) : SubSeq(t, i + 1, i + Len(p)) = p

(***************************************************************************)
(* Filters.  A condition is a literal (equality) or an operator object,    *)
(* a dict from operator names to operands.                                 *)
(***************************************************************************)
Lit(v) == [isdict |-> FALSE, v |-> v]
OpsObj(ops) == [isdict |-> TRUE, ops |-> ops]

\* the body of the loop of _match_query for one key: TRUE when the loop
\* goes on to the next key, FALSE when it returns False
MatchKey(item, key, value) ==
    IF ~Has(item, key) THEN FALSE
    ELSE IF value.isdict
         THEN IF Has(value.ops, "$regex")
              THEN ReSearch(value.ops["$regex"], StrOf(key, item[key]),
                            Get(value.ops, "$options", "") = "i")
              ELSE IF Has(value.ops, "$gte") /\ item[key] < value.ops["$gte"]
                   THEN FALSE
                   ELSE IF Has(value.ops, "$lte") /\ item[key] > value.ops["$lte"]
                        THEN FALSE
                        ELSE TRUE
         ELSE item[key] = value.v

\* MemoryCollection._match_query
MatchQuery(item, query) ==
    \A i \in 1..Len(query) : MatchKey(item, query[i][1], query[i][2])

(***************************************************************************)
(* The documents callers hand to the store.                                *)
(***************************************************************************)
In == <<"I", "n">>
Out == <<"o", "u", "t">>

BookA == [title |-> <<"A">>, price |-> 10, star_rating |-> 3, availability |-> In]
BookB == [title |-> <<"B">>, price |-> 50, star_rating |-> 5, availability |-> In]
BookC == [title |-> <<"C">>, price |-> 30, star_rating |-> 5, availability |-> Out]
\* a document without price and availability
BookE == [title |-> <<"E">>, star_rating |-> 3]
\* a document that already carries an identifier
BookK == [_id |-> <<"k", "1">>, title |-> <<"K">>, price |-> 50, star_rating |-> 3,
          availability |-> Out]

Documents == {BookA, BookE, BookK}

(***************************************************************************)
(* State after the module is imported.                                     *)
(***************************************************************************)
NoOp == [op |-> "none"]

\* books_data.json does not exist
Missing == [kind |-> "missing"]

\* the requests that can be in flight, none of them received yet
Requests == {1, 2, 3}
NoRequest == [pc |-> "none"]

\* the API layer after import, the external collection empty
InitApi ==
    /\ messages_list = << >>
    /\ mongo_books = << >>
    /\ requests = [r \in Requests |-> NoRequest]

Init ==
    /\ storage = << >>
    /\ origin = << >>
    /\ now = 0
    /\ last = NoOp
    /\ use_memory_storage = FALSE
    /\ client = None
    /\ books_data_json = Missing
    /\ InitApi

\* no call is in progress: the caller has taken the last result
Idle == last = NoOp

\* the caller takes the result of the call
Return ==
    /\ ~Idle
    /\ last' = NoOp
    /\ UNCHANGED <<storage, origin, now, process>>

\* the clock advances
Tick ==
    /\ now < MaxTime
    /\ now' = now + 1
    /\ UNCHANGED <<storage, origin, last, process>>

(***************************************************************************)
(* MemoryCollection.insert_one                                             *)
(***************************************************************************)
\* the caller's document after document['_id'] = ...
InsertOneDoc(store, document, t) == SetField(document, "_id", MemId(Len(store), t))

InsertOneStore(store, document, t) == Append(store, InsertOneDoc(store, document, t))

InsertOne(document) ==
    /\ Idle
    /\ Len(storage) < MaxStore
    /\ storage' = InsertOneStore(storage, document, now)
    /\ origin' = Append(origin, [via |-> "insert_one",
                                 id |-> InsertOneDoc(storage, document, now)._id])
    /\ last' = [op |-> "insert_one", document |-> document, pre |-> storage,
                inserted_id |-> InsertOneDoc(storage, document, now)._id]
    /\ UNCHANGED <<now, process>>

(***************************************************************************)
(* MemoryCollection.insert_many: the loop reads the clock once per         *)
(* document; ts[i] is the second in which document i is stamped.           *)
(***************************************************************************)
RECURSIVE InsertManyStore(_, _, _)
InsertManyStore(store, documents, ts) ==
    IF documents = << >> THEN store
    ELSE InsertManyStore(InsertOneStore(store, Head(documents), Head(ts)),
                         Tail(documents), Tail(ts))

\* inserted_ids: the identifiers given to the documents, in order
InsertManyIds(store, documents, ts) ==
    LET after == InsertManyStore(store, documents, ts)
    IN  [i \in 1..Len(documents) |-> after[Len(store) + i]._id]

MaxBatch == 2

Batches == UNION {[1..n -> {BookA, BookE}] : n \in 0..MaxBatch}

\* the clock readings of one loop: they start at now and never go back
Stamps(n) ==
    {ts \in [1..n -> now..MaxTime] :
        \A i \in 1..n : \A j \in 1..n : i <= j => ts[i] <= ts[j]}

InsertMany(documents, ts) ==
    /\ Idle
    /\ Len(storage) + Len(documents) <= MaxStore
    /\ storage' = InsertManyStore(storage, documents, ts)
    /\ origin' = origin \o [i \in 1..Len(documents) |->
                              [via |-> "insert_many",
                               id |-> InsertManyIds(storage, documents, ts)[i]]]
    /\ now' = IF documents = << >> THEN now ELSE ts[Len(ts)]
    /\ last' = [op |-> "insert_many", documents |-> documents, pre |-> storage,
                inserted_ids |-> InsertManyIds(storage, documents, ts)]
    /\ UNCHANGED process

(***************************************************************************)
(* The first match in storage order: the loops of find_one, update_one     *)
(* and delete_one.  0 when the loop ends without a match.                  *)
(***************************************************************************)
RECURSIVE FirstMatchFrom(_, _, _)
FirstMatchFrom(store, query, i) ==
    IF i > Len(store) THEN 0
    ELSE IF MatchQuery(store[i], query) THEN i
         ELSE FirstMatchFrom(store, query, i + 1)

FirstMatch(store, query) == FirstMatchFrom(store, query, 1)

\* del s[i - 1]
DelAt(s, i) == SubSeq(s, 1, i - 1) \o SubSeq(s, i + 1, Len(s))

(***************************************************************************)
(* MemoryCollection.find_one: the stored item itself, or None.             *)
(***************************************************************************)
FindOneResult(store, query) ==
    IF FirstMatch(store, query) = 0 THEN None
    ELSE Some(store[FirstMatch(store, query)])

FindOne(query) ==
    /\ Idle
    /\ last' = [op |-> "find_one", query |-> query, pre |-> storage,
                index |-> FirstMatch(storage, query),
                result |-> FindOneResult(storage, query)]
    /\ UNCHANGED <<storage, origin, now, process>>

(***************************************************************************)
(* MemoryCollection.update_one                                             *)
(***************************************************************************)
\* an update that replaces the document by the fields it sets
UpdateOneStoreReplace(store, query, update) ==
    LET i == FirstMatch(store, query)
    IN  IF i = 0 THEN store
        ELSE IF Has(update, "$set")
             THEN [store EXCEPT ![i] = update["$set"]]
             ELSE store

UpdateOneStore(store, query, update) ==
    LET i == FirstMatch(store, query)
    IN  IF i = 0 THEN store
        ELSE IF Has(update, "$set")
             THEN [store EXCEPT ![i] = DictUpdate(store[i], update["$set"])]
             ELSE store

UpdateOneResult(store, query) ==
    IF FirstMatch(store, query) = 0
    THEN [matched_count |-> 0, modified_count |-> 0]
    ELSE [matched_count |-> 1, modified_count |-> 1]

UpdateOne(query, update) ==
    /\ Idle
    /\ storage' = UpdateOneStore(storage, query, update)
    /\ last' = [op |-> "update_one", query |-> query, update |-> update,
                pre |-> storage, index |-> FirstMatch(storage, query),
                result |-> UpdateOneResult(storage, query)]
    /\ UNCHANGED <<origin, now, process>>

(***************************************************************************)
(* MemoryCollection.delete_one                                             *)
(***************************************************************************)
\* a delete that removes the first document whatever the match is
DeleteOneStoreHead(store, query) ==
    IF FirstMatch(store, query) = 0 THEN store
    ELSE DelAt(store, 1)

DeleteOneStore(store, query) ==
    IF FirstMatch(store, query) = 0 THEN store
    ELSE DelAt(store, FirstMatch(store, query))

DeleteOneResult(store, query) ==
    IF FirstMatch(store, query) = 0 THEN [deleted_count |-> 0]
    ELSE [deleted_count |-> 1]

DeleteOne(query) ==
    /\ Idle
    /\ storage' = DeleteOneStore(storage, query)
    /\ origin' = IF FirstMatch(storage, query) = 0 THEN origin
                 ELSE DelAt(origin, FirstMatch(storage, query))
    /\ last' = [op |-> "delete_one", query |-> query, pre |-> storage,
                index |-> FirstMatch(storage, query),
                result |-> DeleteOneResult(storage, query)]
    /\ UNCHANGED <<now, process>>

(***************************************************************************)
(* MemoryCollection.delete_many.  The loop runs i from len - 1 down to 0   *)
(* (here i + 1 from Len down to 1); kept lists the positions the           *)
(* surviving documents had before the call.                                *)
(***************************************************************************)
\* a loop that steps over the position before each one it deletes
RECURSIVE DeleteManyLoopSkipping(_, _, _, _, _)
DeleteManyLoopSkipping(store, kept, query, i, deleted_count) ==
    IF i < 1 THEN [store |-> store, kept |-> kept, deleted_count |-> deleted_count]
    ELSE IF MatchQuery(store[i], query)
         THEN DeleteManyLoopSkipping(DelAt(store, i), DelAt(kept, i), query, i - 2,
                                     deleted_count + 1)
         ELSE DeleteManyLoopSkipping(store, kept, query, i - 1, deleted_count)

RECURSIVE DeleteManyLoop(_, _, _, _, _)
DeleteManyLoop(store, kept, query, i, deleted_count) ==
    IF i < 1 THEN [store |-> store, kept |-> kept, deleted_count |-> deleted_count]
    ELSE IF MatchQuery(store[i], query)
         THEN DeleteManyLoop(DelAt(store, i), DelAt(kept, i), query, i - 1,
                             deleted_count + 1)
         ELSE DeleteManyLoop(store, kept, query, i - 1, deleted_count)

DeleteManyRun(store, query) ==
    IF Len(query) = 0
    THEN [store |-> << >>, kept |-> << >>, deleted_count |-> Len(store)]
    ELSE DeleteManyLoop(store, [i \in 1..Len(store) |-> i], query, Len(store), 0)

DeleteMany(query) ==
    LET run == DeleteManyRun(storage, query)
    IN  /\ Idle
        /\ storage' = run.store
        /\ origin' = [i \in 1..Len(run.kept) |-> origin[run.kept[i]]]
        /\ last' = [op |-> "delete_many", query |-> query, pre |-> storage,
                    kept |-> run.kept,
                    result |-> [deleted_count |-> run.deleted_count]]
        /\ UNCHANGED <<now, process>>

(***************************************************************************)
(* MemoryCollection.count_documents(query=None)                            *)
(***************************************************************************)
\* a count that takes an absent filter for one nothing matches
CountDocumentsResultNoneZero(store, optquery) ==
    IF IsNone(optquery) THEN 0
    ELSE Len(SelectSeq(store, LAMBDA item : MatchQuery(item, The(optquery))))

CountDocumentsResult(store, optquery) ==
    IF IsNone(optquery) THEN Len(store)
    ELSE Len(SelectSeq(store, LAMBDA item : MatchQuery(item, The(optquery))))

\* item[key] < value['$gte'] or item[key] > value['$lte'] raises TypeError
\* when the stored value is text: the bounds callers pass are numbers
MatchKeyRaises(item, key, value) ==
    /\ Has(item, key)
    /\ value.isdict
    /\ ~Has(value.ops, "$regex")
    /\ Has(value.ops, "$gte") \/ Has(value.ops, "$lte")
    /\ key \notin NumFields

\* _match_query raises: the loop reaches a key whose comparison raises
MatchQueryRaises(item, query) ==
    \E i \in 1..Len(query) :
        /\ \A j \in 1..(i - 1) :
               /\ ~MatchKeyRaises(item, query[j][1], query[j][2])
               /\ MatchKey(item, query[j][1], query[j][2])
        /\ MatchKeyRaises(item, query[i][1], query[i][2])

\* the exception that leaves count_documents, "" when it returns
CountDocumentsRaises(store, optquery) ==
    IF ~IsNone(optquery) /\ \E i \in 1..Len(store) : MatchQueryRaises(store[i], The(optquery))
    THEN "TypeError" ELSE ""

CountDocuments(optquery) ==
    /\ Idle
    /\ last' = [op |-> "count_documents", query |-> optquery, pre |-> storage,
                raised |-> CountDocumentsRaises(storage, optquery),
                result |-> IF CountDocumentsRaises(storage, optquery) # "" THEN None
                           ELSE CountDocumentsResult(storage, optquery)]
    /\ UNCHANGED <<storage, origin, now, process>>

(***************************************************************************)
(* The filters and updates callers pass.                                   *)
(***************************************************************************)
EmptyQuery == << >>

IdQuery(id) == << <<"_id", Lit(id)>> >>

FieldQueries ==
    { << <<"title", Lit(<<"A">>)>> >>,
      << <<"price", OpsObj("$gte" :> 30)>> >> }

\* identifiers a caller can hold: those of stored documents, and one of no document
KnownIds == {storage[i]._id : i \in {j \in 1..Len(storage) : Has(storage[j], "_id")}}
            \cup {<<"k", "1">>}

Queries == {EmptyQuery} \cup FieldQueries \cup {IdQuery(id) : id \in KnownIds}

Updates ==
    { "$set" :> [price |-> 9],
      "$set" :> [price |-> 0, availability |-> <<"U">>],
      "$inc" :> [price |-> 1] }

(***************************************************************************)
(* MemoryCursor                                                            *)
(***************************************************************************)
\* MemoryCursor.__init__
NewCursor(data) ==
    [data |-> data, skip |-> 0, limit |-> None, sort_field |-> None,
     sort_direction |-> 1]

\* MemoryCursor.skip
CursorSkip(c, count) == [c EXCEPT !.skip = count]

\* MemoryCursor.limit
CursorLimit(c, count) == [c EXCEPT !.limit = Some(count)]

\* MemoryCursor.sort
CursorSort(c, field, direction) ==
    [c EXCEPT !.sort_field = Some(field), !.sort_direction = direction]

\* lambda x: x.get(self._sort_field, 0)
SortKey(x, field) == Get(x, field, 0)

\* the key of x is a number: the value of a number field, or the default 0
KeyIsNumber(x, field) == ~Has(x, field) \/ field \in NumFields

\* ord(c) of the characters the model uses
Ord(c) ==
    CASE c = "0" -> 48 [] c = "1" -> 49 [] c = "2" -> 50 [] c = "3" -> 51
      [] c = "4" -> 52 [] c = "5" -> 53 [] c = "6" -> 54 [] c = "7" -> 55
      [] c = "8" -> 56 [] c = "9" -> 57
      [] c = "A" -> 65 [] c = "B" -> 66 [] c = "C" -> 67 [] c = "E" -> 69
      [] c = "I" -> 73 [] c = "K" -> 75 [] c = "U" -> 85 [] c = "_" -> 95
      [] c = "e" -> 101 [] c = "i" -> 105 [] c = "k" -> 107 [] c = "m" -> 109
      [] c = "n" -> 110 [] c = "o" -> 111 [] c = "t" -> 116 [] c = "u" -> 117
      [] c = "w" -> 119

\* a < b of two Python strings
RECURSIVE StrLess(_, _)
StrLess(a, b) ==
    IF b = << >> THEN FALSE
    ELSE IF a = << >> THEN TRUE
    ELSE IF Ord(Head(a)) # Ord(Head(b)) THEN Ord(Head(a)) < Ord(Head(b))
    ELSE StrLess(Tail(a), Tail(b))

\* key(x) < key(y) for two keys that are both numbers or both strings
KeyLess(x, y, field) ==
    IF KeyIsNumber(x, field) THEN SortKey(x, field) < SortKey(y, field)
    ELSE StrLess(SortKey(x, field), SortKey(y, field))

\* the sort compares a number with a string, which raises TypeError: a
\* comparison sort of keys of both kinds compares two of different kinds
SortRaises(s, field) ==
    \E i \in 1..Len(s) : \E j \in 1..Len(s) :
        KeyIsNumber(s[i], field) # KeyIsNumber(s[j], field)

\* list.sort(key=...) is stable: an element goes after the elements already
\* placed whose key is not greater
RECURSIVE InsertSorted(_, _, _)
InsertSorted(sorted, x, field) ==
    IF sorted = << >> THEN <<x>>
    ELSE IF KeyLess(x, Head(sorted), field)
         THEN <<x>> \o sorted
         ELSE <<Head(sorted)>> \o InsertSorted(Tail(sorted), x, field)

RECURSIVE SortAscending(_, _)
SortAscending(s, field) ==
    IF s = << >> THEN << >>
    ELSE InsertSorted(SortAscending(SubSeq(s, 1, Len(s) - 1), field),
                      s[Len(s)], field)

\* a sort whose reverse flag reverses the sorted list
ListSortReversed(s, field, reverse) ==
    IF reverse THEN Reverse(SortAscending(s, field))
    ELSE SortAscending(s, field)

\* list.sort(key=..., reverse=...): with reverse the list is reversed, sorted
\* and reversed again, which keeps equal elements in their original order
ListSort(s, field, reverse) ==
    IF reverse THEN Reverse(SortAscending(Reverse(s), field))
    ELSE SortAscending(s, field)

\* the truth value of self._sort_field and of self._limit
TruthyField(o) == ~IsNone(o) /\ The(o) # ""
TruthyCount(o) == ~IsNone(o) /\ The(o) # 0

\* MemoryCursor.to_list raises TypeError out of result.sort
CursorToListRaises(c) ==
    TruthyField(c.sort_field) /\ SortRaises(c.data, The(c.sort_field))

\* MemoryCursor.to_list(length=None) when it returns: length is not read
CursorToList(c, length) ==
    LET result == IF TruthyField(c.sort_field)
                  THEN ListSort(c.data, The(c.sort_field), c.sort_direction = -1)
                  ELSE c.data
        start == c.skip
    IN  IF TruthyCount(c.limit)
        THEN Slice(result, start, start + The(c.limit))
        ELSE SliceFrom(result, start)

\* a find that treats an absent filter as one nothing matches
FindDataNoneEmpty(store, optquery) ==
    IF IsNone(optquery) THEN << >>
    ELSE SelectSeq(store, LAMBDA item : MatchQuery(item, The(optquery)))

\* MemoryCollection.find(query=None)
FindData(store, optquery) ==
    LET query == IF IsNone(optquery) THEN EmptyQuery ELSE The(optquery)
    IN  SelectSeq(store, LAMBDA item : MatchQuery(item, query))

\* the chained configuration calls, applied in the order they are made
SortCall(field, direction) == [m |-> "sort", field |-> field, direction |-> direction]
SkipCall(count) == [m |-> "skip", count |-> count]
LimitCall(count) == [m |-> "limit", count |-> count]

ApplyCall(c, call) ==
    CASE call.m = "sort" -> CursorSort(c, call.field, call.direction)
      [] call.m = "skip" -> CursorSkip(c, call.count)
      [] call.m = "limit" -> CursorLimit(c, call.count)

RECURSIVE ApplyCalls(_, _)
ApplyCalls(c, calls) ==
    IF calls = << >> THEN c
    ELSE ApplyCalls(ApplyCall(c, Head(calls)), Tail(calls))

\* collection.find(query).<calls>.to_list(length), as the handlers of
\* src/main.py chain them in one expression; raised names the exception
\* that leaves to_list, "" when it returns
Find(optquery, calls, length) ==
    LET c == ApplyCalls(NewCursor(FindData(storage, optquery)), calls)
    IN  /\ Idle
        /\ last' = [op |-> "find", query |-> optquery, calls |-> calls,
                    length |-> length, pre |-> storage, cursor |-> c,
                    raised |-> IF CursorToListRaises(c) THEN "TypeError" ELSE "",
                    result |-> IF CursorToListRaises(c) THEN << >>
                               ELSE CursorToList(c, length)]
        /\ UNCHANGED <<storage, origin, now, process>>

\* the chains callers make: any of sort, skip and limit, each at most once,
\* in any order
MaxSkip == 2
MaxLimit == 2

ConfigCalls ==
    {SortCall("price", -1), SortCall("availability", -1)}
    \cup {SkipCall(n) : n \in 0..MaxSkip}
    \cup {LimitCall(m) : m \in 1..MaxLimit}

Chains ==
    UNION {{ch \in [1..n -> ConfigCalls] :
                \A i \in 1..n : \A j \in 1..n : i # j => ch[i].m # ch[j].m}
           : n \in 0..3}

CursorQueries ==
    {None, Some(EmptyQuery),
     Some(<< <<"price", OpsObj("$gte" :> 30)>> >>),
     Some(<< <<"star_rating", Lit(3)>> >>)}

CursorDocuments == {BookA, BookB, BookE, BookK}

(***************************************************************************)
(* MemoryAggregationCursor.  A stage is a dict with the key "$group" or    *)
(* "$sort"; a group is a dict with the key "_id" (None or a field name)    *)
(* and one key per requested accumulator.  An average is kept as a reduced *)
(* fraction.                                                               *)
(***************************************************************************)
RECURSIVE Gcd(_, _)
Gcd(a, b) == IF b = 0 THEN a ELSE Gcd(b, a % b)

Fraction(n, d) == [num |-> n \div Gcd(n, d), den |-> d \div Gcd(n, d)]

RECURSIVE SumSeq(_)
SumSeq(s) == IF s = << >> THEN 0 ELSE Head(s) + SumSeq(Tail(s))

MinSeq(s) == CHOOSE x \in Range(s) : \A y \in Range(s) : x <= y
MaxSeq(s) == CHOOSE x \in Range(s) : \A y \in Range(s) : x >= y

\* [item.get(field, 0) for item in self.data]
Column(data, field) == [i \in 1..Len(data) |-> Get(data[i], field, 0)]

\* sum(xs) / len(xs) if xs else 0
AvgOrZero(xs) == IF xs = << >> THEN Fraction(0, 1) ELSE Fraction(SumSeq(xs), Len(xs))
MinOrZero(xs) == IF xs = << >> THEN 0 ELSE MinSeq(xs)
MaxOrZero(xs) == IF xs = << >> THEN 0 ELSE MaxSeq(xs)

\* the branch group['_id'] is None: the result dict
OverallStatistics(data, group) ==
    LET keys == {k \in {"avg_price", "min_price", "max_price", "avg_rating"} :
                    Has(group, k)}
    IN  [k \in keys |->
            CASE k = "avg_price" -> AvgOrZero(Column(data, "price"))
              [] k = "min_price" -> MinOrZero(Column(data, "price"))
              [] k = "max_price" -> MaxOrZero(Column(data, "price"))
              [] k = "avg_rating" -> AvgOrZero(Column(data, "star_rating"))]

Unknown == <<"U", "n", "k", "n", "o", "w", "n">>

\* item.get(group_field, 'Unknown') of two items are equal
SameGroupKey(a, b, field) ==
    IF Has(a, field) /\ Has(b, field) THEN a[field] = b[field]
    ELSE IF ~Has(a, field) /\ ~Has(b, field) THEN TRUE
    ELSE IF field \in NumFields THEN FALSE
    ELSE Get(a, field, Unknown) = Get(b, field, Unknown)

\* the branch with a group field: one {'_id': key, 'count': n} per key, in
\* the order the keys were first seen
GroupByField(data, field) ==
    LET first == SelectSeq([i \in 1..Len(data) |-> i],
                           LAMBDA i : \A j \in 1..(i - 1) :
                                          ~SameGroupKey(data[j], data[i], field))
    IN  [g \in 1..Len(first) |->
            [_id |-> Get(data[first[g]], field, Unknown),
             count |-> Cardinality({j \in 1..Len(data) :
                                      SameGroupKey(data[j], data[first[g]], field)})]]

\* MemoryAggregationCursor.to_list: the first stage with "$group" returns
RECURSIVE AggregateFrom(_, _, _)
AggregateFrom(data, pipeline, i) ==
    IF i > Len(pipeline) THEN << >>
    ELSE IF Has(pipeline[i], "$group")
         THEN LET group == pipeline[i]["$group"]
              IN  IF IsNone(group["_id"])
                  THEN <<OverallStatistics(data, group)>>
                  ELSE GroupByField(data, The(group["_id"]))
         ELSE AggregateFrom(data, pipeline, i + 1)

AggregateToList(data, pipeline) == AggregateFrom(data, pipeline, 1)

\* an aggregation that reorders the store's list when the pipeline sorts
AggregateStoreReversed(store, pipeline) ==
    IF \E i \in 1..Len(pipeline) : Has(pipeline[i], "$sort") THEN Reverse(store)
    ELSE store

\* _memory_storage after to_list: self.data is the store's own list and
\* to_list only reads it
AggregateStore(store, pipeline) == store

\* collection.aggregate(pipeline).to_list(length); prev is history: the
\* aggregation the caller ran immediately before this one, if any
Aggregate(pipeline) ==
    /\ Idle \/ last.op = "aggregate"
    /\ storage' = AggregateStore(storage, pipeline)
    /\ last' = [op |-> "aggregate", pipeline |-> pipeline, pre |-> storage,
                result |-> AggregateToList(storage, pipeline),
                prev |-> IF Idle THEN None
                         ELSE Some([pipeline |-> last.pipeline,
                                    result |-> last.result])]
    /\ UNCHANGED <<origin, now, process>>

\* an accumulator expression {op: arg}
Acc(op, arg) == [op |-> op, arg |-> arg]

\* get_books_summary: the overall statistics
SummaryPipeline ==
    << "$group" :> (("_id" :> None)
                    @@ ("total_books" :> Acc("$sum", "1"))
                    @@ ("avg_price" :> Acc("$avg", "$price"))
                    @@ ("min_price" :> Acc("$min", "$price"))
                    @@ ("max_price" :> Acc("$max", "$price"))
                    @@ ("avg_rating" :> Acc("$avg", "$star_rating"))) >>

\* get_scraping_analysis: the average price
AvgPricePipeline ==
    << "$group" :> (("_id" :> None) @@ ("avg_price" :> Acc("$avg", "$price"))) >>

\* get_books_summary, get_scraping_analysis: the rating distribution
RatingPipeline ==
    << "$group" :> (("_id" :> Some("$star_rating")) @@ ("count" :> Acc("$sum", "1"))),
       "$sort" :> [_id |-> 1] >>

\* get_books_summary: the availability distribution
AvailabilityPipeline ==
    << "$group" :> (("_id" :> Some("$availability")) @@ ("count" :> Acc("$sum", "1"))) >>

\* the rating distribution with the key as the store reads it: group['_id']
\* is the name item.get looks up
RatingByFieldPipeline ==
    << "$group" :> (("_id" :> Some("star_rating")) @@ ("count" :> Acc("$sum", "1"))),
       "$sort" :> [_id |-> 1] >>

Pipelines ==
    {SummaryPipeline, AvgPricePipeline, RatingPipeline, AvailabilityPipeline,
     RatingByFieldPipeline}

AggregateDocuments == {BookA, BookB, BookC, BookE}

(***************************************************************************)
(* The store under inserts, deletes, point reads and counts.               *)
(***************************************************************************)
Next ==
    \/ Tick
    \/ Return
    \/ \E d \in Documents : InsertOne(d)
    \/ \E b \in Batches : \E ts \in Stamps(Len(b)) : InsertMany(b, ts)
    \/ \E q \in Queries : FindOne(q)
    \/ \E q \in Queries : DeleteOne(q)
    \/ \E q \in Queries : DeleteMany(q)
    \/ \E q \in {None} \cup {Some(f) : f \in Queries} : CountDocuments(q)

Spec == Init /\ [][Next]_vars

(***************************************************************************)
(* The store under inserts, deletes, updates and point reads.              *)
(***************************************************************************)
NextUpdate ==
    \/ Return
    \/ \E d \in Documents : InsertOne(d)
    \/ \E q \in Queries : DeleteOne(q)
    \/ \E q \in Queries : \E u \in Updates : UpdateOne(q, u)
    \/ \E q \in Queries : FindOne(q)

SpecUpdate == Init /\ [][NextUpdate]_vars

(***************************************************************************)
(* The store under inserts and cursor reads.                               *)
(***************************************************************************)
NextCursor ==
    \/ Return
    \/ \E d \in CursorDocuments : InsertOne(d)
    \/ \E q \in CursorQueries : \E ch \in Chains : \E length \in {None, Some(1)} :
          Find(q, ch, length)

SpecCursor == Init /\ [][NextCursor]_vars

(***************************************************************************)
(* The store under inserts, deletes and aggregations.                      *)
(***************************************************************************)
NextAggregate ==
    \/ Return
    \/ \E d \in AggregateDocuments : InsertOne(d)
    \/ \E q \in {IdQuery(id) : id \in KnownIds} : DeleteOne(q)
    \/ \E p \in Pipelines : Aggregate(p)

SpecAggregate == Init /\ [][NextAggregate]_vars

(***************************************************************************)
(* The snapshot file books_data.json.  json.dump writes a number as its    *)
(* decimal text and a string as itself; json.load reads them back.  The    *)
(* "metadata" object of the file is never read and is left out.            *)
(***************************************************************************)
\* the file exists and its content is not valid JSON
Corrupt == [kind |-> "corrupt"]

\* the file close_mongo_connection writes: {"metadata": ..., "books": books}
JsonFile(books) == [kind |-> "json", books |-> books]

\* json.dump of one document
JsonDumpDoc(d) ==
    [k \in DOMAIN d |->
        IF k \in NumFields THEN [json |-> "number", text |-> StrOf(k, d[k])]
        ELSE [json |-> "string", text |-> d[k]]]

DigitValue(c) == CHOOSE n \in 0..9 : DigitChars[n + 1] = c

\* int(s) for a run of digits
RECURSIVE IntOf(_)
IntOf(s) ==
    IF s = << >> THEN 0
    ELSE IntOf(SubSeq(s, 1, Len(s) - 1)) * 10 + DigitValue(s[Len(s)])

\* the number json.load reads from the text of a whole number, "3" or "10.0"
ParseNumber(s) ==
    IF \E i \in 1..Len(s) : s[i] = "."
    THEN IntOf(SubSeq(s, 1, (CHOOSE i \in 1..Len(s) : s[i] = ".") - 1))
    ELSE IntOf(s)

\* json.load of one document
JsonLoadDoc(j) ==
    [k \in DOMAIN j |->
        IF j[k].json = "number" THEN ParseNumber(j[k].text) ELSE j[k].text]

JsonDump(store) == [i \in 1..Len(store) |-> JsonDumpDoc(store[i])]
JsonLoad(books) == [i \in 1..Len(books) |-> JsonLoadDoc(books[i])]

(***************************************************************************)
(* _load_memory_data: only FileNotFoundError is handled; a top-level list  *)
(* in the file is loaded like the "books" list.                            *)
(***************************************************************************)
\* the exception that leaves _load_memory_data, "" when it returns
LoadMemoryDataRaises(file) == IF file.kind = "corrupt" THEN "JSONDecodeError" ELSE ""

\* _memory_storage after _load_memory_data
LoadMemoryData(store, file) ==
    CASE file.kind = "missing" -> << >>
      [] file.kind = "corrupt" -> store
      [] file.kind = "json" -> store \o JsonLoad(file.books)

\* the history of the documents after _load_memory_data
LoadMemoryOrigin(orig, file) ==
    CASE file.kind = "missing" -> << >>
      [] file.kind = "corrupt" -> orig
      [] file.kind = "json" ->
            orig \o [i \in 1..Len(file.books) |->
                        [via |-> "load",
                         id |-> Get(JsonLoadDoc(file.books[i]), "_id", None)]]

(***************************************************************************)
(* connect_to_mongo: ping is the outcome of the handshake with the         *)
(* external MongoDB.                                                       *)
(***************************************************************************)
ConnectToMongo(ping) ==
    /\ Idle
    /\ ~ping => Len(LoadMemoryData(storage, books_data_json)) <= MaxStore
    /\ client' = Some("AsyncIOMotorClient")
    /\ use_memory_storage' = ~ping
    /\ storage' = IF ping THEN storage ELSE LoadMemoryData(storage, books_data_json)
    /\ origin' = IF ping THEN origin ELSE LoadMemoryOrigin(origin, books_data_json)
    /\ last' = [op |-> "connect_to_mongo", ping |-> ping, pre |-> storage,
                pre_use |-> use_memory_storage, pre_client |-> client,
                file |-> books_data_json,
                raised |-> IF ping THEN "" ELSE LoadMemoryDataRaises(books_data_json)]
    /\ UNCHANGED <<now, books_data_json, api>>

(***************************************************************************)
(* close_mongo_connection                                                  *)
(***************************************************************************)
CloseFile(store, use, file) ==
    IF use /\ store # << >> THEN JsonFile(JsonDump(store)) ELSE file

CloseMongoConnection ==
    /\ Idle
    /\ books_data_json' = CloseFile(storage, use_memory_storage, books_data_json)
    /\ last' = [op |-> "close_mongo_connection", pre |-> storage,
                file |-> books_data_json]
    /\ UNCHANGED <<storage, origin, now, use_memory_storage, client, api>>

\* the process ends and a new one imports the module: the file stays
Restart ==
    /\ Idle
    /\ client # None
    /\ storage' = << >>
    /\ origin' = << >>
    /\ use_memory_storage' = FALSE
    /\ client' = None
    /\ UNCHANGED <<now, last, books_data_json, api>>

(***************************************************************************)
(* BookScraper.save_to_mongodb.  The books fit in one batch of 100.        *)
(***************************************************************************)
Url == <<"u">>
UnknownTitle == <<"U", "n", "k", "n", "o", "w", "n", " ", "T", "i", "t", "l", "e">>

\* books as scrape_page builds them; the second has no product URL
ScrapedA == [title |-> <<"A">>, price |-> 10, availability |-> In, star_rating |-> 3,
             product_url |-> Url]
ScrapedN == [title |-> <<"N">>, price |-> 30, availability |-> In, star_rating |-> 5,
             product_url |-> << >>]

\* self.books_data
ScrapedLists == UNION {[1..n -> {ScrapedA, ScrapedN}] : n \in 0..MaxBatch}

\* clean_book
CleanBook(book) ==
    [title |-> Get(book, "title", UnknownTitle),
     price |-> Get(book, "price", 0),
     availability |-> Get(book, "availability", Unknown),
     star_rating |-> Get(book, "star_rating", 0),
     product_url |-> Get(book, "product_url", << >>)]

\* valid_books: the cleaned books with a non-empty product_url
ValidBooks(books_data) ==
    SelectSeq([i \in 1..Len(books_data) |-> CleanBook(books_data[i])],
              LAMBDA b : b.product_url # << >>)

\* the parameters of MemoryCollection.insert_many besides self
InsertManyParameters == {"documents"}

\* a call that passes a keyword the function does not declare raises
CallRaises(parameters, keywords) ==
    IF keywords \subseteq parameters THEN "" ELSE "TypeError"

\* _memory_storage after the batch loop: insert_many(batch, ordered=False)
\* inside try/except Exception
SaveInsert(store, valid_books, t) ==
    IF CallRaises(InsertManyParameters, {"ordered"}) # "" THEN store
    ELSE InsertManyStore(store, valid_books, [i \in 1..Len(valid_books) |-> t])

\* _memory_storage when save_to_mongodb ends with the in-process backend
SaveStore(store, file, books_data, t) ==
    IF LoadMemoryDataRaises(file) # "" THEN store
    ELSE IF books_data = << >> THEN LoadMemoryData(store, file)
    ELSE IF ValidBooks(books_data) = << >> THEN << >>
    ELSE SaveInsert(<< >>, ValidBooks(books_data), t)

SaveOrigin(orig, file, books_data, t) ==
    IF LoadMemoryDataRaises(file) # "" THEN orig
    ELSE IF books_data = << >> THEN LoadMemoryOrigin(orig, file)
    ELSE [i \in 1..Len(SaveStore(<< >>, Missing, books_data, t)) |->
             [via |-> "insert_many",
              id |-> SaveStore(<< >>, Missing, books_data, t)[i]._id]]

\* with the external backend active the books go to MongoDB and the
\* in-process list is not touched
SaveToMongodb(books_data, ping) ==
    /\ Idle
    /\ ~ping => Len(LoadMemoryData(storage, books_data_json)) <= MaxStore
    /\ client' = Some("AsyncIOMotorClient")
    /\ use_memory_storage' = ~ping
    /\ storage' = IF ping THEN storage
                  ELSE SaveStore(storage, books_data_json, books_data, now)
    /\ origin' = IF ping THEN origin
                 ELSE SaveOrigin(origin, books_data_json, books_data, now)
    /\ last' = [op |-> "save_to_mongodb", books_data |-> books_data, ping |-> ping,
                pre |-> storage, pre_use |-> use_memory_storage,
                pre_client |-> client,
                valid_books |-> ValidBooks(books_data),
                raised |-> IF ping THEN "" ELSE LoadMemoryDataRaises(books_data_json)]
    /\ UNCHANGED <<now, books_data_json, api>>

\* BookScraper.save_to_json: the default filename is the snapshot file; the
\* metadata names the source, and the books are written as scrape_page
\* built them, without an _id
SaveToJson(books_data) ==
    /\ Idle
    /\ books_data_json' = [kind |-> "json", source |-> "books.toscrape.com",
                           books |-> JsonDump(books_data)]
    /\ last' = [op |-> "save_to_json", books_data |-> books_data,
                file |-> books_data_json]
    /\ UNCHANGED <<storage, origin, now, use_memory_storage, client, api>>

\* the documents the API hands to the store in the lifecycle runs
LifecycleDocuments == {BookA, BookE}

(***************************************************************************)
(* The process from start to exit: connects, store calls through           *)
(* get_collection while the in-process backend is active, the scraper's    *)
(* save, the shutdown flush and the next process start.                    *)
(***************************************************************************)
InitLifecycle ==
    /\ storage = << >>
    /\ origin = << >>
    /\ now = 0
    /\ last = NoOp
    /\ use_memory_storage = FALSE
    /\ client = None
    /\ books_data_json \in {Missing, Corrupt}
    /\ InitApi

NextLifecycle ==
    \/ Return
    \/ \E ping \in BOOLEAN : ConnectToMongo(ping)
    \/ CloseMongoConnection
    \/ Restart
    \/ \E d \in LifecycleDocuments : use_memory_storage /\ InsertOne(d)
    \/ \E q \in {EmptyQuery} \cup {IdQuery(id) : id \in KnownIds} :
          use_memory_storage /\ DeleteOne(q)
    \/ \E q \in {IdQuery(id) : id \in KnownIds} : use_memory_storage /\ FindOne(q)
    \/ \E b \in ScrapedLists : \E ping \in BOOLEAN : SaveToMongodb(b, ping)
    \/ SaveToJson(<<ScrapedA>>)

SpecLifecycle == InitLifecycle /\ [][NextLifecycle]_vars

(***************************************************************************)
(* A caller writes a field of the document find_one handed out.  find_one  *)
(* returns the dict that sits in _memory_storage, so the write lands in    *)
(* the stored document at the position the read found.                     *)
(***************************************************************************)
SetReturnedField(field, value) ==
    /\ last.op = "find_one"
    /\ ~IsNone(last.result)
    /\ storage' = [storage EXCEPT ![last.index] = SetField(@, field, value)]
    /\ last' = [op |-> "set_returned_field", field |-> field, value |-> value,
                pre |-> storage, index |-> last.index]
    /\ UNCHANGED <<origin, now, process>>

\* the fields a caller writes
ReturnedFieldWrites == {<<"price", 0>>, <<"title", <<"Z">>>>}

(***************************************************************************)
(* Filters whose operator object carries several operators.                *)
(***************************************************************************)
PriceIs(ops) == << <<"price", OpsObj(ops)>> >>

OperatorQueries ==
    {PriceIs(("$gte" :> 30) @@ ("$lte" :> 30)),
     PriceIs(("$gte" :> 10) @@ ("$lte" :> 30)),
     PriceIs(("$regex" :> <<"0">>) @@ ("$gte" :> 30)),
     PriceIs(("$regex" :> <<"0">>) @@ ("$lte" :> 30)),
     PriceIs("$regex" :> <<"1">>)}

ReadDocuments == {BookA, BookB, BookC}

(***************************************************************************)
(* The store under inserts, point reads, counts with operator filters and  *)
(* callers that write to what a read returned.                             *)
(***************************************************************************)
NextRead ==
    \/ Return
    \/ \E d \in ReadDocuments : InsertOne(d)
    \/ \E q \in OperatorQueries \cup {IdQuery(id) : id \in KnownIds} : FindOne(q)
    \/ \E q \in OperatorQueries : CountDocuments(Some(q))
    \/ \E w \in ReturnedFieldWrites : SetReturnedField(w[1], w[2])

SpecRead == Init /\ [][NextRead]_vars

(***************************************************************************)
(* Counts with filters that are structurally malformed: a bound on a text  *)
(* field, an operator the matcher does not know.                           *)
(***************************************************************************)
MalformedQueries ==
    {<< <<"title", OpsObj("$gte" :> 30)>> >>,
     << <<"star_rating", Lit(5)>>, <<"availability", OpsObj("$lte" :> 30)>> >>,
     << <<"price", OpsObj("$gt" :> 30)>> >>}

NextMalformed ==
    \/ Return
    \/ \E d \in ReadDocuments : InsertOne(d)
    \/ \E q \in MalformedQueries : CountDocuments(Some(q))

SpecMalformed == Init /\ [][NextMalformed]_vars

(***************************************************************************)
(* The HTTP handlers of src/main.py on the in-process backend.  A response *)
(* is a status and a body or detail; the handlers below record it in last. *)
(***************************************************************************)
\* str.strip on a text
RECURSIVE Strip(_)
Strip(s) ==
    IF s = << >> THEN s
    ELSE IF Head(s) = " " THEN Strip(Tail(s))
    ELSE IF s[Len(s)] = " " THEN Strip(SubSeq(s, 1, Len(s) - 1))
    ELSE s

\* cleaned_data of BookModel.from_mongo
CleanedData(data) ==
    [_id |-> IF Has(data, "_id") THEN Some(data._id) ELSE None,
     title |-> IF Strip(Get(data, "title", << >>)) = << >> THEN UnknownTitle
               ELSE Strip(data.title),
     price |-> Get(data, "price", 0),
     availability |-> IF Strip(Get(data, "availability", << >>)) = << >> THEN Unknown
                      ELSE Strip(data.availability),
     star_rating |-> IF Get(data, "star_rating", 0) > 5 THEN 5
                     ELSE IF Get(data, "star_rating", 0) < 0 THEN 0
                     ELSE Get(data, "star_rating", 0),
     product_url |-> Strip(Get(data, "product_url", << >>))]

\* BookModel.from_mongo: BookModel rejects a negative price, and the
\* except branch then builds the minimal object
FromMongo(data) ==
    IF CleanedData(data).price >= 0 THEN CleanedData(data)
    ELSE [_id |-> Some(Get(data, "_id", << >>)),
          title |-> UnknownTitle, price |-> 0, availability |-> Unknown,
          star_rating |-> 0, product_url |-> Get(data, "product_url", << >>)]

\* a filter that leaves the upper price bound out
GetBooksFilterNoMaxPrice(p) ==
    (IF IsNone(p.star_rating) THEN << >>
     ELSE << <<"star_rating", Lit(The(p.star_rating))>> >>)
    \o (IF IsNone(p.min_price) THEN << >>
        ELSE << <<"price", OpsObj("$gte" :> The(p.min_price))>> >>)

\* filter_query of get_books, its keys in the order the handler sets them
GetBooksFilter(p) ==
    (IF IsNone(p.star_rating) THEN << >>
     ELSE << <<"star_rating", Lit(The(p.star_rating))>> >>)
    \o (IF IsNone(p.availability) \/ The(p.availability) = << >> THEN << >>
        ELSE << <<"availability", OpsObj(("$regex" :> The(p.availability))
                                         @@ ("$options" :> "i"))>> >>)
    \o (IF IsNone(p.min_price) /\ IsNone(p.max_price) THEN << >>
        ELSE << <<"price",
                  OpsObj((IF IsNone(p.min_price) THEN << >>
                          ELSE "$gte" :> The(p.min_price))
                         @@ (IF IsNone(p.max_price) THEN << >>
                             ELSE "$lte" :> The(p.max_price)))>> >>)
    \o (IF IsNone(p.search) \/ The(p.search) = << >> THEN << >>
        ELSE << <<"title", OpsObj(("$regex" :> The(p.search))
                                  @@ ("$options" :> "i"))>> >>)

\* GET /books/: any exception of the store calls becomes status 500
GetBooks(p) ==
    LET filter_query == GetBooksFilter(p)
        raises == \E i \in 1..Len(storage) : MatchQueryRaises(storage[i], filter_query)
        cursor == ApplyCalls(NewCursor(FindData(storage, Some(filter_query))),
                             <<SortCall("price", -1), SkipCall(p.skip),
                               LimitCall(p.limit)>>)
        failed == raises \/ CursorToListRaises(cursor)
        books == CursorToList(cursor, Some(p.limit))
    IN  /\ Idle
        /\ use_memory_storage
        /\ last' = [op |-> "get_books", params |-> p, pre |-> storage,
                    status |-> IF failed THEN 500 ELSE 200,
                    body |-> IF failed THEN << >>
                             ELSE [i \in 1..Len(books) |-> FromMongo(books[i])]]
        /\ UNCHANGED <<storage, origin, now, process>>

\* the query parameters requests carry, within the bounds Query declares
GetBooksParams ==
    [skip : 0..1, limit : 1..2,
     star_rating : {None, Some(5)},
     availability : {None, Some(<<"i", "n">>)},
     min_price : {None, Some(30)},
     max_price : {None, Some(10), Some(30)},
     search : {None, Some(<<"b">>)}]

\* ObjectId.is_valid on a str: 24 hexadecimal digits
IsValidObjectId(book_id) ==
    /\ Len(book_id) = 24
    /\ \A i \in 1..Len(book_id) :
          book_id[i] \in Range(DigitChars)
                         \cup {"a", "b", "c", "d", "e", "f", "A", "B", "C", "D", "E", "F"}

\* ObjectId(book_id): a value no str is equal to
ObjectIdOf(book_id) == <<"ObjectId">> \o book_id

\* query of get_book and delete_book
BookIdQuery(book_id) ==
    IF IsValidObjectId(book_id) THEN IdQuery(ObjectIdOf(book_id)) ELSE IdQuery(book_id)

\* GET /books/{book_id}
GetBook(book_id) ==
    LET book == FindOneResult(storage, BookIdQuery(book_id))
    IN  /\ Idle
        /\ use_memory_storage
        /\ last' = [op |-> "get_book", book_id |-> book_id, pre |-> storage,
                    query |-> BookIdQuery(book_id),
                    status |-> IF IsNone(book) THEN 404 ELSE 200,
                    detail |-> IF IsNone(book) THEN "Book not found" ELSE "",
                    body |-> IF IsNone(book) THEN None ELSE Some(FromMongo(The(book)))]
        /\ UNCHANGED <<storage, origin, now, process>>

\* the identifiers requests name: those of stored books, the one of
\* test_invalid_book_id and one in ObjectId format
BookIds ==
    KnownIds \cup {<<"i", "n", "v", "a", "l", "i", "d", "-", "i", "d">>,
                   [i \in 1..24 |-> "a"]}

\* a validation that lets any price at or above 0 through
BookCreateValidUnboundedPrice(body) ==
    /\ Len(body.title) >= 1 /\ Len(body.title) <= 500
    /\ body.price >= 0
    /\ Len(body.availability) <= 100
    /\ body.star_rating >= 1 /\ body.star_rating <= 5
    /\ Len(body.product_url) <= 1000

\* the Field constraints of BookCreate, which FastAPI checks before it
\* calls the handler
BookCreateValid(body) ==
    /\ Len(body.title) >= 1 /\ Len(body.title) <= 500
    /\ body.price >= 0 /\ body.price <= 1000
    /\ Len(body.availability) <= 100
    /\ body.star_rating >= 1 /\ body.star_rating <= 5
    /\ Len(body.product_url) <= 1000

\* POST /books/: a body that fails validation is answered 422 and the
\* handler does not run; otherwise insert_one, find_one by inserted_id
\* and from_mongo
CreateBook(body) ==
    LET inserted_id == InsertOneDoc(storage, body, now)._id
        created_book == FindOneResult(InsertOneStore(storage, body, now),
                                      IdQuery(inserted_id))
    IN  /\ Idle
        /\ use_memory_storage
        /\ IF BookCreateValid(body)
           THEN /\ Len(storage) < MaxStore
                /\ storage' = InsertOneStore(storage, body, now)
                /\ origin' = Append(origin, [via |-> "insert_one", id |-> inserted_id])
                /\ last' = [op |-> "create_book", body |-> body, pre |-> storage,
                            status |-> IF IsNone(created_book) THEN 500 ELSE 200,
                            response |-> IF IsNone(created_book) THEN None
                                         ELSE Some(FromMongo(The(created_book)))]
           ELSE /\ last' = [op |-> "create_book", body |-> body, pre |-> storage,
                            status |-> 422, response |-> None]
                /\ UNCHANGED <<storage, origin>>
        /\ UNCHANGED <<now, process>>

\* request bodies: each constrained field at, below and above its bounds
CreateBodies ==
    [title : {<< >>, <<"A">>}, price : {-10, 10, 1001}, availability : {In},
     star_rating : {0, 3, 6}, product_url : {Url}]

(***************************************************************************)
(* The API process on the in-process backend: the startup connect falls    *)
(* back, then requests arrive one at a time; documents without all fields  *)
(* stand for those a snapshot file brings in.                              *)
(***************************************************************************)
NextApi ==
    \/ Return
    \/ client = None /\ ConnectToMongo(FALSE)
    \/ \E d \in {BookB, BookC, BookE} : use_memory_storage /\ InsertOne(d)
    \/ \E body \in CreateBodies : CreateBook(body)
    \/ \E p \in GetBooksParams : GetBooks(p)
    \/ \E book_id \in BookIds : GetBook(book_id)

SpecApi == Init /\ [][NextApi]_vars

(***************************************************************************)
(* The legacy message routes.  add_msg and message_items are plain def     *)
(* endpoints, which the server runs on worker threads: one request reads   *)
(* the keys (msg_id) and then writes its entry, and another thread can run *)
(* between the two.  alone records that no other add_msg was between its   *)
(* read and its write when the request read the keys.                      *)
(***************************************************************************)
Max(S) == CHOOSE x \in S : \A y \in S : y <= x

\* an id that repeats the greatest key
MsgIdNoIncrement(messages) ==
    IF DOMAIN messages # {} THEN Max(DOMAIN messages) ELSE 0

\* msg_id = max(messages_list.keys()) + 1 if messages_list else 0
MsgId(messages) ==
    IF DOMAIN messages # {} THEN Max(DOMAIN messages) + 1 ELSE 0

\* add_msg up to the computation of msg_id
AddMsgId(r, msg_name) ==
    /\ Idle
    /\ requests[r].pc = "none"
    /\ requests' = [requests EXCEPT ![r] =
                       [pc |-> "msg_id",
                        msg_id |-> MsgId(messages_list),
                        msg_name |-> msg_name,
                        alone |-> \A q \in Requests : requests[q].pc # "msg_id"]]
    /\ UNCHANGED <<storage, origin, now, last, use_memory_storage, client,
                   books_data_json, messages_list, mongo_books>>

\* messages_list[msg_id] = MsgPayload(msg_id=msg_id, msg_name=msg_name)
\* and the response {"message": messages_list[msg_id]}
AddMsgStore(r) ==
    LET payload == [msg_id |-> requests[r].msg_id, msg_name |-> requests[r].msg_name]
    IN  /\ Idle
        /\ requests[r].pc = "msg_id"
        /\ messages_list' = SetField(messages_list, requests[r].msg_id, payload)
        /\ requests' = [requests EXCEPT ![r] =
                           [pc |-> "done", msg_id |-> requests[r].msg_id,
                            msg_name |-> requests[r].msg_name,
                            alone |-> requests[r].alone,
                            status |-> 200, message |-> payload]]
        /\ UNCHANGED <<storage, origin, now, last, use_memory_storage, client,
                       books_data_json, mongo_books>>

\* GET /messages
MessageItems ==
    /\ Idle
    /\ last' = [op |-> "message_items", result |-> [messages |-> messages_list]]
    /\ UNCHANGED <<storage, origin, now, process>>

NextMessages ==
    \/ Return
    \/ \E r \in Requests : \E msg_name \in {<<"a">>, <<"b">>} : AddMsgId(r, msg_name)
    \/ \E r \in Requests : AddMsgStore(r)
    \/ MessageItems

SpecMessages == Init /\ [][NextMessages]_vars

(***************************************************************************)
(* clean_incomplete_books on the in-process backend.  find({}).to_list     *)
(* hands out the stored dicts themselves, so the book of iteration i is    *)
(* the document at position i as the earlier iterations left it.           *)
(***************************************************************************)
\* missing_fields: the required fields absent or equal to ''
MissingFields(book) ==
    {field \in {"title", "price", "availability", "star_rating"} :
        \/ ~Has(book, field)
        \/ field \notin NumFields /\ book[field] = << >>}

\* updates: the product URLs here do not have the form
\* /<name>_<n>/index.html, so a missing title becomes 'Unknown Title'
CleanUpdates(book) ==
    [field \in MissingFields(book) |->
        CASE field = "title" -> UnknownTitle
          [] field = "price" -> 0
          [] field = "availability" -> Unknown
          [] field = "star_rating" -> 0]

\* the loop over books from position i on; book['_id'] of a document
\* without _id raises KeyError, and the except branch returns 0
RECURSIVE CleanLoop(_, _, _)
CleanLoop(store, i, updated_count) ==
    IF i > Len(store) THEN [store |-> store, result |-> updated_count]
    ELSE IF MissingFields(store[i]) = {} THEN CleanLoop(store, i + 1, updated_count)
    ELSE IF ~Has(store[i], "_id") THEN [store |-> store, result |-> 0]
    ELSE CleanLoop(UpdateOneStore(store, IdQuery(store[i]._id),
                                  "$set" :> CleanUpdates(store[i])),
                   i + 1, updated_count + 1)

\* clean_incomplete_books; a caller may run it again right after a run
CleanIncompleteBooks ==
    /\ Idle \/ last.op = "clean_incomplete_books"
    /\ use_memory_storage
    /\ storage' = CleanLoop(storage, 1, 0).store
    /\ last' = [op |-> "clean_incomplete_books", pre |-> storage, prev |-> last.op,
                result |-> CleanLoop(storage, 1, 0).result]
    /\ UNCHANGED <<origin, now, process>>

\* books with every field, without price and availability, with an empty title
NextCleanup ==
    \/ Return
    \/ client = None /\ ConnectToMongo(FALSE)
    \/ \E d \in {BookA, BookE, SetField(BookB, "title", << >>)} :
          use_memory_storage /\ InsertOne(d)
    \/ use_memory_storage /\ DeleteOne(EmptyQuery)
    \/ CleanIncompleteBooks

SpecCleanup == Init /\ [][NextCleanup]_vars

(***************************************************************************)
(* DELETE /books/{book_id} with several requests in flight.  The handler   *)
(* awaits find_one and then delete_one.  The methods of MemoryCollection   *)
(* contain no await, so awaiting them does not give up the event loop and  *)
(* the handler runs from find_one to its response in one step; the calls   *)
(* of the external collection wait for the server, and another request can *)
(* run between the two.                                                    *)
(***************************************************************************)
\* the documents get_collection() gives access to
Collection == IF use_memory_storage THEN storage ELSE mongo_books

\* delete_book up to the await of delete_one: 404 when find_one gives no
\* book; the response does not read result.deleted_count
DeleteBookFind(r, book_id) ==
    LET query == BookIdQuery(book_id)
        book == FindOneResult(Collection, query)
    IN  /\ Idle
        /\ client # None
        /\ requests[r].pc = "none"
        /\ IF IsNone(book)
           THEN /\ requests' = [requests EXCEPT ![r] =
                                   [pc |-> "done", book_id |-> book_id, status |-> 404,
                                    deleted_count |-> 0]]
                /\ UNCHANGED <<storage, origin>>
           ELSE IF use_memory_storage
           THEN /\ storage' = DeleteOneStore(storage, query)
                /\ origin' = DelAt(origin, FirstMatch(storage, query))
                /\ requests' = [requests EXCEPT ![r] =
                                   [pc |-> "done", book_id |-> book_id, status |-> 200,
                                    deleted_count |->
                                        DeleteOneResult(storage, query).deleted_count]]
           ELSE /\ requests' = [requests EXCEPT ![r] =
                                   [pc |-> "found", book_id |-> book_id]]
                /\ UNCHANGED <<storage, origin>>
        /\ UNCHANGED <<now, last, use_memory_storage, client, books_data_json,
                       messages_list, mongo_books>>

\* delete_book from the await of delete_one on the external collection to
\* the response
DeleteBookDelete(r) ==
    LET query == BookIdQuery(requests[r].book_id)
    IN  /\ Idle
        /\ requests[r].pc = "found"
        /\ mongo_books' = DeleteOneStore(mongo_books, query)
        /\ requests' = [requests EXCEPT ![r] =
                           [pc |-> "done", book_id |-> requests[r].book_id,
                            status |-> 200,
                            deleted_count |->
                                DeleteOneResult(mongo_books, query).deleted_count]]
        /\ UNCHANGED <<storage, origin, now, last, use_memory_storage, client,
                       books_data_json, messages_list>>

\* a book of the external collection, its _id the ObjectId of 24 times c
MongoBook(c) == SetField(BookA, "_id", ObjectIdOf([i \in 1..24 |-> c]))

\* the process before startup, the external collection holding up to two books
InitDelete ==
    /\ storage = << >>
    /\ origin = << >>
    /\ now = 0
    /\ last = NoOp
    /\ use_memory_storage = FALSE
    /\ client = None
    /\ books_data_json = Missing
    /\ messages_list = << >>
    /\ mongo_books \in {<< >>, <<MongoBook("a")>>, <<MongoBook("a"), MongoBook("b")>>}
    /\ requests = [r \in Requests |-> NoRequest]

NextDelete ==
    \/ Return
    \/ \E ping \in BOOLEAN : client = None /\ ConnectToMongo(ping)
    \/ \E d \in {BookA, BookB} : use_memory_storage /\ InsertOne(d)
    \/ \E r \in {1, 2} :
          \E book_id \in {MemId(0, 0), MemId(1, 0),
                           [i \in 1..24 |-> "a"], [i \in 1..24 |-> "b"]} :
              DeleteBookFind(r, book_id)
    \/ \E r \in {1, 2} : DeleteBookDelete(r)

SpecDelete == InitDelete /\ [][NextDelete]_vars

(***************************************************************************)
(* Properties                                                              *)
(***************************************************************************)
\* query is the filter {"_id": id}
IsIdQuery(query, id) ==
    /\ Len(query) = 1
    /\ query[1][1] = "_id"
    /\ ~query[1][2].isdict
    /\ query[1][2].v = id

\* the positions of s whose document the filter accepts
Matching(s, query) == {i \in 1..Len(s) : MatchQuery(s[i], query)}

\* the n-th smallest member of a set of positions
Nth(idx, n) == CHOOSE i \in idx : Cardinality({j \in idx : j <= i}) = n

\* the documents of s at the positions idx, in the order of s
Pick(s, idx) == [n \in 1..Cardinality(idx) |-> s[Nth(idx, n)]]

\* C1: find_one({_id: i}), with i the identifier insert_one returned for a
\* document that is still stored, returns that document and no other one.
C1_FindOneByReturnedId ==
    last.op = "find_one" =>
        \A k \in 1..Len(storage) :
            (origin[k].via = "insert_one" /\ IsIdQuery(last.query, origin[k].id))
                => last.result = Some(storage[k])

\* C8: in every reachable state no two stored documents carry the same
\* identifier.
C8_IdentifiersUnique ==
    \A i \in 1..Len(storage) : \A j \in 1..Len(storage) :
        i # j => storage[i]._id # storage[j]._id

\* C9: insert_one keeps the identifier a document carries and assigns a
\* non-empty one only when it is absent; it appends exactly one copy at the
\* end, leaves the existing documents unchanged and returns the identifier of
\* the stored copy.
C9_InsertOneKeepsCarriedId ==
    last.op = "insert_one" =>
        /\ Len(storage) = Len(last.pre) + 1
        /\ SubSeq(storage, 1, Len(last.pre)) = last.pre
        /\ storage[Len(storage)]._id = last.inserted_id
        /\ last.inserted_id # << >>
        /\ \A f \in (DOMAIN last.document) \ {"_id"} :
               Has(storage[Len(storage)], f)
               /\ storage[Len(storage)][f] = last.document[f]
        /\ DOMAIN storage[Len(storage)] = (DOMAIN last.document) \cup {"_id"}
        /\ Has(last.document, "_id") => last.inserted_id = last.document._id

\* the filter of a find: an absent filter is the empty one
FilterOf(optquery) == IF IsNone(optquery) THEN EmptyQuery ELSE The(optquery)

\* C2: find(F).to_list() with no sort, skip or limit returns exactly the
\* stored documents the matcher accepts for F, each once, in storage order;
\* an empty or absent filter returns the whole store.
C2_FindReturnsMatches ==
    (last.op = "find" /\ last.calls = << >>) =>
        /\ last.raised = ""
        /\ last.result = Pick(last.pre, Matching(last.pre, FilterOf(last.query)))
        /\ FilterOf(last.query) = EmptyQuery => last.result = last.pre
        /\ storage = last.pre

C2_Witness ==
    /\ last.op = "find"
    /\ last.calls = << >>
    /\ last.query = Some(<< <<"price", OpsObj("$gte" :> 30)>> >>)
    /\ Len(last.pre) = 3
    /\ Len(last.result) = 2
    /\ ~MatchQuery(last.pre[2], The(last.query))

\* document x comes before document y in a descending sort by k: its key is
\* greater, a missing k counting as 0 and below every text
ComesBefore(x, y, k) ==
    IF k \in NumFields THEN Get(x, k, 0) > Get(y, k, 0)
    ELSE IF ~Has(x, k) THEN FALSE
    ELSE IF ~Has(y, k) THEN TRUE
    ELSE StrLess(y[k], x[k])

\* the order a descending stable sort by field k gives the positions of
\* data: greater keys first, equal keys in the order of data
DescendingOrder(data, k) ==
    CHOOSE p \in [1..Len(data) -> 1..Len(data)] :
        /\ \A i \in 1..Len(data) : \E j \in 1..Len(data) : p[j] = i
        /\ \A i \in 1..Len(data) : \A j \in 1..Len(data) :
              i < j => \/ ComesBefore(data[p[i]], data[p[j]], k)
                       \/ /\ ~ComesBefore(data[p[j]], data[p[i]], k)
                          /\ p[i] < p[j]

\* the matching documents sorted descending by k, the first n dropped, at
\* most m kept
SortedSkippedLimited(data, k, n, m) ==
    LET left == IF Len(data) > n THEN Len(data) - n ELSE 0
        size == IF left < m THEN left ELSE m
    IN  [i \in 1..size |-> data[DescendingOrder(data, k)[n + i]]]

\* the call of method m in a chain that calls it once
CallOf(calls, m) == calls[CHOOSE i \in 1..Len(calls) : calls[i].m = m]

\* the chain calls sort(k, -1), skip(n) and limit(m), each once, in any order
IsSortSkipLimit(calls) ==
    /\ Len(calls) = 3
    /\ {calls[i].m : i \in 1..3} = {"sort", "skip", "limit"}
    /\ CallOf(calls, "sort").direction = -1

\* C3: for every field k, find(F).sort(k,-1).skip(n).limit(m).to_list() is
\* the matching documents sorted descending by k (missing k as 0, equal k in
\* storage order), then the first n dropped, then at most m kept, whatever
\* the order of the three chained calls.
C3_SortSkipLimit ==
    (last.op = "find" /\ IsSortSkipLimit(last.calls)) =>
        /\ last.raised = ""
        /\ last.result =
              SortedSkippedLimited(
                  Pick(last.pre, Matching(last.pre, FilterOf(last.query))),
                  CallOf(last.calls, "sort").field,
                  CallOf(last.calls, "skip").count,
                  CallOf(last.calls, "limit").count)

\* C3 for the sorts that raise nothing: the keys of the matching documents,
\* 0 for a missing k, are all numbers or all strings.
C3_SortSkipLimitComparable ==
    (last.op = "find" /\ IsSortSkipLimit(last.calls) /\ last.raised = "") =>
        last.result =
            SortedSkippedLimited(
                Pick(last.pre, Matching(last.pre, FilterOf(last.query))),
                CallOf(last.calls, "sort").field,
                CallOf(last.calls, "skip").count,
                CallOf(last.calls, "limit").count)

\* limit, skip and sort called in that order, on three documents of which
\* two have the same price and one has none
C3_Witness ==
    /\ last.op = "find"
    /\ last.calls = <<LimitCall(2), SkipCall(1), SortCall("price", -1)>>
    /\ last.query = Some(EmptyQuery)
    /\ Len(last.pre) = 3
    /\ ~Has(last.pre[1], "price")
    /\ Has(last.pre[2], "price") /\ Has(last.pre[3], "price")
    /\ last.pre[2].price = last.pre[3].price
    /\ Len(last.result) = 2
    /\ last.result[1] = last.pre[3]
    /\ last.result[2] = last.pre[1]

\* C4: update_one(filter, {$set: fields}) changes only the named fields of
\* the first matching document and reports matched=1, modified=1; the other
\* fields, the other documents and the order are unchanged; with no match
\* it reports 0, 0 and changes nothing.  A find_one on the same identifier
\* then shows the new values.
C4_UpdateOneFrame ==
    (last.op = "update_one" /\ Has(last.update, "$set")) =>
        LET idx == Matching(last.pre, last.query)
            set == last.update["$set"]
        IN  IF idx = {}
            THEN /\ last.result = [matched_count |-> 0, modified_count |-> 0]
                 /\ storage = last.pre
            ELSE LET i == Nth(idx, 1)
                 IN  /\ last.result = [matched_count |-> 1, modified_count |-> 1]
                     /\ Len(storage) = Len(last.pre)
                     /\ \A j \in 1..Len(storage) : j # i => storage[j] = last.pre[j]
                     /\ DOMAIN storage[i] = (DOMAIN last.pre[i]) \cup (DOMAIN set)
                     /\ \A f \in DOMAIN set : storage[i][f] = set[f]
                     /\ \A f \in (DOMAIN last.pre[i]) \ (DOMAIN set) :
                            storage[i][f] = last.pre[i][f]
                     /\ \A id \in KnownIds :
                            IsIdQuery(last.query, id) =>
                                /\ FindOneResult(storage, last.query) = Some(storage[i])
                                /\ \A f \in DOMAIN set :
                                       The(FindOneResult(storage, last.query))[f] = set[f]

\* an update by identifier of the second of two documents, which adds one
\* field and overwrites another
C4_Witness ==
    /\ last.op = "update_one"
    /\ Has(last.update, "$set")
    /\ Len(last.pre) >= 2
    /\ IsIdQuery(last.query, last.pre[2]._id)
    /\ last.index = 2
    /\ ~Has(last.pre[2], "availability")
    /\ Has(storage[2], "availability")
    /\ storage[2] # last.pre[2]
    /\ storage[2].title = last.pre[2].title

\* C5: delete_many(F) removes exactly the documents matching F, keeps the
\* others in their relative order and reports the number removed; with an
\* empty filter it empties the store and reports its former size, and
\* count_documents({}) is then 0.
C5_DeleteMany ==
    last.op = "delete_many" =>
        LET idx == Matching(last.pre, last.query)
        IN  /\ storage = Pick(last.pre, (1..Len(last.pre)) \ idx)
            /\ last.result.deleted_count = Cardinality(idx)
            /\ last.query = EmptyQuery =>
                  /\ storage = << >>
                  /\ last.result.deleted_count = Len(last.pre)
                  /\ CountDocumentsResult(storage, Some(EmptyQuery)) = 0

\* a delete_many that removes the first and the last of three documents
C5_Witness ==
    /\ last.op = "delete_many"
    /\ last.query # EmptyQuery
    /\ Len(last.pre) = 3
    /\ last.result.deleted_count = 2
    /\ storage = <<last.pre[2]>>

\* a delete_many with the empty filter on a store of three documents
C5_WitnessEmptyFilter ==
    /\ last.op = "delete_many"
    /\ last.query = EmptyQuery
    /\ Len(last.pre) = 3
    /\ last.result.deleted_count = 3
    /\ storage = << >>

\* C6: delete_one(F) removes exactly one document, the first in storage
\* order that matches F, and reports deleted_count=1; with no match it
\* reports deleted_count=0 and leaves the store unchanged.
C6_DeleteOne ==
    last.op = "delete_one" =>
        LET idx == Matching(last.pre, last.query)
        IN  IF idx = {}
            THEN /\ last.result = [deleted_count |-> 0]
                 /\ storage = last.pre
            ELSE /\ last.result = [deleted_count |-> 1]
                 /\ storage = Pick(last.pre, (1..Len(last.pre)) \ {Nth(idx, 1)})

\* a delete_one whose filter matches the second and the third of three
\* documents
C6_Witness ==
    /\ last.op = "delete_one"
    /\ Len(last.pre) = 3
    /\ Matching(last.pre, last.query) = {2, 3}
    /\ last.result.deleted_count = 1
    /\ storage = <<last.pre[1], last.pre[3]>>

\* a delete_one whose filter matches nothing in a store that is not empty
C6_WitnessNoMatch ==
    /\ last.op = "delete_one"
    /\ Len(last.pre) >= 2
    /\ Matching(last.pre, last.query) = {}
    /\ last.result.deleted_count = 0

\* C7: count_documents(F) is the number of stored documents the matcher
\* accepts for F, the length of find(F).to_list(); with an empty or absent
\* filter it is the size of the store; the store is unchanged.
C7_CountDocuments ==
    last.op = "count_documents" =>
        /\ last.result = Cardinality(Matching(last.pre, FilterOf(last.query)))
        /\ last.result = Len(CursorToList(NewCursor(FindData(last.pre, last.query)),
                                          None))
        /\ FilterOf(last.query) = EmptyQuery => last.result = Len(last.pre)
        /\ storage = last.pre

\* a count that is neither 0 nor the size of the store
C7_Witness ==
    /\ last.op = "count_documents"
    /\ Len(last.pre) = 3
    /\ last.result = 2
    /\ ~IsNone(last.query)

\* a count with the filter absent
C7_WitnessAbsentFilter ==
    /\ last.op = "count_documents"
    /\ IsNone(last.query)
    /\ last.result = 3

\* the document field an accumulator argument "$field" names
FieldOfArg(arg) ==
    CASE arg = "$price" -> "price"
      [] arg = "$star_rating" -> "star_rating"

\* the value of an accumulator expression over data
Accumulate(acc, data) ==
    CASE acc.op = "$sum" /\ acc.arg = "1" -> Len(data)
      [] acc.op = "$sum" /\ acc.arg # "1" -> SumSeq(Column(data, FieldOfArg(acc.arg)))
      [] acc.op = "$avg" -> AvgOrZero(Column(data, FieldOfArg(acc.arg)))
      [] acc.op = "$min" -> MinOrZero(Column(data, FieldOfArg(acc.arg)))
      [] acc.op = "$max" -> MaxOrZero(Column(data, FieldOfArg(acc.arg)))

\* the pipeline is one group stage with null key
IsNullGroup(pipeline) ==
    /\ Len(pipeline) = 1
    /\ Has(pipeline[1], "$group")
    /\ IsNone(pipeline[1]["$group"]["_id"])

\* C10: a group stage with null key returns exactly one result document
\* holding one field per requested accumulator, each equal to that
\* accumulator (count, sum, avg, min or max) of its source field over all
\* stored documents, and 0 over an empty store.
C10_NullGroupAccumulators ==
    (last.op = "aggregate" /\ IsNullGroup(last.pipeline)) =>
        LET group == last.pipeline[1]["$group"]
        IN  /\ Len(last.result) = 1
            /\ DOMAIN last.result[1] = (DOMAIN group) \ {"_id"}
            /\ \A name \in (DOMAIN group) \ {"_id"} :
                   last.result[1][name] = Accumulate(group[name], last.pre)

\* the summary pipeline over books priced 10, 50 and 30: the average is 30
\* and the result has no document count
C10_Witness ==
    /\ last.op = "aggregate"
    /\ last.pipeline = SummaryPipeline
    /\ Column(last.pre, "price") = <<10, 50, 30>>
    /\ Len(last.result) = 1
    /\ last.result[1].avg_price = Fraction(30, 1)
    /\ ~Has(last.result[1], "total_books")

\* C10 for the four accumulators the store computes
C10_KnownAccumulators ==
    (last.op = "aggregate" /\ IsNullGroup(last.pipeline)) =>
        LET group == last.pipeline[1]["$group"]
        IN  /\ Len(last.result) = 1
            /\ \A name \in DOMAIN last.result[1] :
                   /\ Has(group, name)
                   /\ last.result[1][name] = Accumulate(group[name], last.pre)

\* the pipeline starts with a group stage keyed by a field
IsFieldGroup(pipeline) ==
    /\ Len(pipeline) >= 1
    /\ Has(pipeline[1], "$group")
    /\ ~IsNone(pipeline[1]["$group"]["_id"])

\* the document field a group key names, with or without the "$" prefix
FieldOfKey(key) ==
    CASE key = "$star_rating" -> "star_rating"
      [] key = "$availability" -> "availability"
      [] OTHER -> key

\* the positions of data where a value of field is seen for the first time
FirstSeen(data, field) ==
    SelectSeq([i \in 1..Len(data) |-> i],
              LAMBDA i : \A j \in 1..(i - 1) : ~SameGroupKey(data[j], data[i], field))

\* equality of two values that may be of different kinds (number, text)
SameValue(a, b) == ToString(a) = ToString(b)

\* C11: a group stage keyed by a field returns one result document per
\* distinct value of that field among the stored documents, in first-seen
\* order, each with count the number of documents having that value;
\* documents missing the field are counted under "Unknown"; the counts sum
\* to the store size.
C11_GroupByField ==
    (last.op = "aggregate" /\ IsFieldGroup(last.pipeline)) =>
        LET field == FieldOfKey(The(last.pipeline[1]["$group"]["_id"]))
            first == FirstSeen(last.pre, field)
            counts == [g \in 1..Len(last.result) |-> last.result[g].count]
        IN  /\ Len(last.result) = Len(first)
            /\ \A g \in 1..Len(first) :
                   /\ SameValue(last.result[g]._id,
                                Get(last.pre[first[g]], field, Unknown))
                   /\ last.result[g].count =
                          Cardinality({j \in 1..Len(last.pre) :
                              SameGroupKey(last.pre[j], last.pre[first[g]], field)})
            /\ SumSeq(counts) = Len(last.pre)

\* the rating distribution of get_books_summary over books rated 3 and 5:
\* one group, keyed "Unknown"
C11_Witness ==
    /\ last.op = "aggregate"
    /\ last.pipeline = RatingPipeline
    /\ Column(last.pre, "star_rating") = <<3, 5>>
    /\ Len(last.result) = 1
    /\ SameValue(last.result[1]._id, Unknown)
    /\ last.result[1].count = 2

\* C11 for a key that is the bare name of the field
C11_BareFieldKey ==
    (last.op = "aggregate" /\ last.pipeline = RatingByFieldPipeline) => C11_GroupByField

\* the pipeline is a group stage keyed by a field, then a sort stage
\* ascending on _id
IsGroupThenSort(pipeline) ==
    /\ Len(pipeline) = 2
    /\ IsFieldGroup(pipeline)
    /\ Has(pipeline[2], "$sort")
    /\ pipeline[2]["$sort"] = [_id |-> 1]

\* C12: every stage executes, in the order given, on the previous stage's
\* output: for [group by star_rating with count, sort by _id ascending] the
\* result is the groups in ascending order of their key, whatever the
\* insertion order of the documents.
C12_StagesInOrder ==
    (last.op = "aggregate" /\ IsGroupThenSort(last.pipeline)) =>
        /\ Range(last.result) = Range(AggregateToList(last.pre, <<last.pipeline[1]>>))
        /\ \A i \in 1..Len(last.result) : \A j \in 1..Len(last.result) :
               i < j => last.result[i]._id < last.result[j]._id

\* two groups come out in first-seen order, the larger key first
C12_Witness ==
    /\ last.op = "aggregate"
    /\ last.pipeline = RatingByFieldPipeline
    /\ Column(last.pre, "star_rating") = <<5, 3>>
    /\ Len(last.result) = 2
    /\ last.result[1]._id = 5
    /\ last.result[2]._id = 3

SnapshotDocuments(file) == IF file.kind = "json" THEN JsonLoad(file.books) ELSE << >>

\* C14: when the handshake fails, connect_to_mongo completes without raising
\* and leaves the in-process backend active; the store of a starting process
\* then holds the snapshot's documents if the file is readable, and is empty
\* if the file is missing or corrupt.
C14_ConnectFallsBack ==
    (last.op = "connect_to_mongo" /\ ~last.ping) =>
        /\ last.raised = ""
        /\ use_memory_storage
        /\ last.pre_client = None => storage = SnapshotDocuments(last.file)

\* a starting process falls back and finds a snapshot of two documents
C14_Witness ==
    /\ last.op = "connect_to_mongo"
    /\ ~last.ping
    /\ last.pre_client = None
    /\ last.file.kind = "json"
    /\ Len(last.file.books) = 2
    /\ storage = JsonLoad(last.file.books)

\* the snapshot file is corrupt and the exception leaves connect_to_mongo
C14_WitnessCorrupt ==
    /\ last.op = "connect_to_mongo"
    /\ last.file = Corrupt
    /\ last.raised = "JSONDecodeError"

\* C14 for a snapshot file that is missing or holds valid JSON
C14_MissingOrReadable ==
    (last.op = "connect_to_mongo" /\ ~last.ping /\ last.file.kind # "corrupt") =>
        /\ last.raised = ""
        /\ use_memory_storage
        /\ last.pre_client = None => storage = SnapshotDocuments(last.file)

\* C15: every connect_to_mongo that falls back leaves the store equal to
\* exactly the snapshot's document sequence, whatever the store held before:
\* a second connect, or a disconnect followed by a connect in the same
\* process, never duplicates documents.
C15_ConnectReplacesStore ==
    (last.op = "connect_to_mongo" /\ ~last.ping /\ last.raised = "") =>
        storage = SnapshotDocuments(last.file)

\* a connect after a disconnect in the same process: the store holds the
\* flushed document twice
C15_Witness ==
    /\ last.op = "connect_to_mongo"
    /\ ~last.ping
    /\ last.pre_client # None
    /\ Len(last.pre) = 1
    /\ last.file = JsonFile(JsonDump(last.pre))
    /\ storage = last.pre \o last.pre

\* C16: once the first connect_to_mongo has chosen a backend,
\* is_using_memory_storage() keeps its value for the rest of the process: no
\* later store operation and no later call by a collaborator, the scraper's
\* save included, switches the backend.
C16_BackendFixed ==
    [][(client # None /\ client' # None) => use_memory_storage' = use_memory_storage]_vars

\* the scraper's save reconnects and switches a process that had fallen
\* back to the external backend
C16_Witness ==
    /\ last.op = "save_to_mongodb"
    /\ last.pre_client # None
    /\ last.pre_use
    /\ ~use_memory_storage

\* C16 for the calls on the store
C16_StoreCallsKeepBackend ==
    [][(last'.op \notin {"none", "connect_to_mongo", "save_to_mongodb"}
            /\ client' # None)
        => use_memory_storage' = use_memory_storage]_vars

\* the identifiers of the store are pairwise distinct and find_one resolves
\* each to its document
IdentifiersResolve(store) ==
    \A k \in 1..Len(store) :
        /\ Has(store[k], "_id")
        /\ FirstMatch(store, IdQuery(store[k]._id)) = k

\* C17: with the in-process backend active and a non-empty store,
\* close_mongo_connection followed by a fresh process start that falls back
\* yields a store with the same documents, in the same order and with the
\* same field values, with pairwise distinct identifiers that find_one
\* resolves.
C17_SnapshotRoundTrip ==
    /\ (last.op = "close_mongo_connection" /\ use_memory_storage /\ last.pre # << >>)
           => SnapshotDocuments(books_data_json) = last.pre
    /\ (last.op = "connect_to_mongo" /\ ~last.ping /\ last.pre_client = None
            /\ last.file.kind = "json" /\ ~Has(last.file, "source"))
           => /\ storage = SnapshotDocuments(last.file)
              /\ IdentifiersResolve(storage)

\* a restored store of two documents that carry the same identifier
C17_Witness ==
    /\ last.op = "connect_to_mongo"
    /\ ~last.ping
    /\ last.pre_client = None
    /\ last.file.kind = "json"
    /\ ~Has(last.file, "source")
    /\ Len(storage) = 2
    /\ Has(storage[1], "_id") /\ Has(storage[2], "_id")
    /\ storage[1]._id = storage[2]._id
    /\ storage[1].title # storage[2].title

\* C17 for the content: the flush and the restore keep the documents, their
\* order and their field values, and the restore keeps the identifiers
\* resolvable when they were before the flush
C17_ContentRestored ==
    /\ (last.op = "close_mongo_connection" /\ use_memory_storage /\ last.pre # << >>)
           => /\ SnapshotDocuments(books_data_json) = last.pre
              /\ storage = last.pre
    /\ (last.op = "connect_to_mongo" /\ ~last.ping /\ last.pre_client = None
            /\ last.file.kind = "json" /\ ~Has(last.file, "source"))
           => /\ storage = SnapshotDocuments(last.file)
              /\ IdentifiersResolve(SnapshotDocuments(last.file))
                     => IdentifiersResolve(storage)

\* C18: documents handed out by reads are copies: changing a field of a
\* document returned by find_one changes nothing in the store.
C18_ReadsReturnCopies ==
    last.op = "set_returned_field" => storage = last.pre

\* a write to the price of a returned document shows in the store
C18_Witness ==
    /\ last.op = "set_returned_field"
    /\ last.field = "price"
    /\ last.pre[last.index].price = 50
    /\ storage[last.index].price = 0
    /\ Len(storage) = 2

\* C19: when save_to_mongodb completes with N >= 1 valid books while the
\* in-process backend is active, the store holds exactly those N books, in
\* scrape order, each with an assigned identifier.
C19_SaveStoresValidBooks ==
    (last.op = "save_to_mongodb" /\ last.raised = "" /\ use_memory_storage
        /\ Len(last.valid_books) >= 1) =>
        /\ Len(storage) = Len(last.valid_books)
        /\ \A i \in 1..Len(storage) :
               /\ Has(storage[i], "_id")
               /\ \A f \in DOMAIN last.valid_books[i] :
                      Has(storage[i], f) /\ storage[i][f] = last.valid_books[i][f]

\* a save of one valid book over a store of two documents ends with an
\* empty store
C19_Witness ==
    /\ last.op = "save_to_mongodb"
    /\ last.raised = ""
    /\ use_memory_storage
    /\ Len(last.valid_books) = 1
    /\ Len(last.pre) = 2
    /\ storage = << >>

\* the field value satisfies every operator of the operator object
SatisfiesAll(item, key, ops) ==
    /\ Has(item, key)
    /\ Has(ops, "$regex") =>
           ReSearch(ops["$regex"], StrOf(key, item[key]), Get(ops, "$options", "") = "i")
    /\ Has(ops, "$gte") => item[key] >= ops["$gte"]
    /\ Has(ops, "$lte") => item[key] <= ops["$lte"]

\* the filter is one field with an operator object
IsOperatorQuery(query) == Len(query) = 1 /\ query[1][2].isdict

\* C20: when the operator object of a field carries several operators among
\* $regex, $gte and $lte, a document matches only if its field value
\* satisfies every one of them.
C20_OperatorsConjoin ==
    (last.op = "count_documents" /\ ~IsNone(last.query)
        /\ IsOperatorQuery(The(last.query))) =>
        LET key == The(last.query)[1][1]
            ops == The(last.query)[1][2].ops
        IN  last.result = Cardinality({i \in 1..Len(last.pre) :
                                          SatisfiesAll(last.pre[i], key, ops)})

\* {price: {$regex: "0", $gte: 30}} counts a book priced 10
C20_Witness ==
    /\ last.op = "count_documents"
    /\ The(last.query) = PriceIs(("$regex" :> <<"0">>) @@ ("$gte" :> 30))
    /\ Column(last.pre, "price") = <<10, 50>>
    /\ last.result = 2

\* C20 for operator objects without $regex: {$gte: a, $lte: b} accepts
\* exactly a <= price <= b
C20_RangeConjoins ==
    (last.op = "count_documents" /\ ~IsNone(last.query)
        /\ IsOperatorQuery(The(last.query))
        /\ ~Has(The(last.query)[1][2].ops, "$regex")) => C20_OperatorsConjoin

\* C21: the matcher never raises on a structurally malformed filter: for a
\* field whose operator object holds only an unsupported operator, or whose
\* bound cannot be compared with the document's value, the document does
\* not match and the operation completes normally.
C21_MalformedFilterNoMatch ==
    (last.op = "count_documents" /\ ~IsNone(last.query)
        /\ The(last.query) \in MalformedQueries) =>
        /\ last.raised = ""
        /\ last.result = 0
        /\ storage = last.pre

\* a numeric bound on the title of a stored book: the count raises
C21_Witness ==
    /\ last.op = "count_documents"
    /\ The(last.query) = << <<"title", OpsObj("$gte" :> 30)>> >>
    /\ Len(last.pre) = 2
    /\ last.raised = "TypeError"

\* an operator the matcher does not know accepts every book that has the
\* field
C21_WitnessUnsupported ==
    /\ last.op = "count_documents"
    /\ The(last.query) = << <<"price", OpsObj("$gt" :> 30)>> >>
    /\ Column(last.pre, "price") = <<10, 50>>
    /\ last.raised = ""
    /\ last.result = 2

\* the chain calls method m
HasCall(calls, m) == \E i \in 1..Len(calls) : calls[i].m = m

\* C22: to_list(maxCount) on a cursor on which limit was never set returns at
\* most maxCount documents, the first maxCount after sort and skip; when
\* limit was set, limit decides the number returned.
C22_ToListMaxCount ==
    (last.op = "find" /\ last.raised = "") =>
        /\ (~HasCall(last.calls, "limit") /\ ~IsNone(last.length)) =>
               last.result = Slice(CursorToList(last.cursor, None), 0, The(last.length))
        /\ HasCall(last.calls, "limit") =>
               last.result = CursorToList(last.cursor, None)

\* to_list(1) without a limit hands out both stored documents
C22_Witness ==
    /\ last.op = "find"
    /\ last.calls = << >>
    /\ last.length = Some(1)
    /\ Len(last.pre) = 2
    /\ last.result = last.pre

\* C22 for a cursor with a limit: the limit decides, whatever maxCount is
C22_LimitDecides ==
    (last.op = "find" /\ last.raised = "" /\ HasCall(last.calls, "limit")) =>
        /\ Len(last.result) <= CallOf(last.calls, "limit").count
        /\ last.result = CursorToList(last.cursor, None)

\* document d passes every filter the parameters p supply
PassesFilters(d, p) ==
    /\ ~IsNone(p.star_rating) =>
          Has(d, "star_rating") /\ d.star_rating = The(p.star_rating)
    /\ ~IsNone(p.min_price) => Has(d, "price") /\ The(p.min_price) <= d.price
    /\ ~IsNone(p.max_price) => Has(d, "price") /\ d.price <= The(p.max_price)
    /\ ~IsNone(p.availability) =>
          Has(d, "availability") /\ ReSearch(The(p.availability), d.availability, TRUE)
    /\ ~IsNone(p.search) => Has(d, "title") /\ ReSearch(The(p.search), d.title, TRUE)

\* C23: GET /books/ answers 200 with at most limit books; the books are
\* those of the store that pass every supplied filter, sorted by price
\* descending, the first skip dropped; each returned book shows the
\* filtered values and the prices never increase along the list.
C23_GetBooks ==
    last.op = "get_books" =>
        LET p == last.params
            expected == SortedSkippedLimited(
                            SelectSeq(last.pre, LAMBDA d : PassesFilters(d, p)),
                            "price", p.skip, p.limit)
        IN  /\ last.status = 200
            /\ Len(last.body) <= p.limit
            /\ Len(last.body) = Len(expected)
            /\ \A i \in 1..Len(last.body) :
                  /\ last.body[i]._id = Some(expected[i]._id)
                  /\ ~IsNone(p.star_rating) => last.body[i].star_rating = The(p.star_rating)
                  /\ ~IsNone(p.min_price) => The(p.min_price) <= last.body[i].price
                  /\ ~IsNone(p.max_price) => last.body[i].price <= The(p.max_price)
            /\ \A i \in 1..Len(last.body) : \A j \in 1..Len(last.body) :
                  i < j => last.body[i].price >= last.body[j].price

\* a price range and a star rating are supplied, the store holds books
\* inside and outside them, one passing book is skipped and one returned
C23_Witness ==
    /\ last.op = "get_books"
    /\ last.params.skip = 1
    /\ last.params.star_rating = Some(5)
    /\ last.params.min_price = Some(30)
    /\ last.params.max_price = Some(30)
    /\ Len(last.pre) = 3
    /\ Len(last.body) = 1
    /\ \E i \in 1..3 : ~PassesFilters(last.pre[i], last.params)

\* no filter, two of three books returned in descending price, one of the
\* stored books lacking a price
C23_WitnessUnfiltered ==
    /\ last.op = "get_books"
    /\ GetBooksFilter(last.params) = EmptyQuery
    /\ last.params.limit = 2
    /\ Len(last.pre) = 3
    /\ \E i \in 1..3 : ~Has(last.pre[i], "price")
    /\ Len(last.body) = 2
    /\ last.body[1].price > last.body[2].price

\* C24: GET /books/{book_id} with a book_id that is not in ObjectId format
\* answers 400 with the detail "Invalid book ID format" and leaves the
\* store as it was.
C24_InvalidIdIs400 ==
    (last.op = "get_book" /\ ~IsValidObjectId(last.book_id)) =>
        /\ last.status = 400
        /\ last.detail = "Invalid book ID format"
        /\ storage = last.pre

\* the request of test_invalid_book_id is answered 404 after a find_one
\* over a store that holds books
C24_Witness ==
    /\ last.op = "get_book"
    /\ last.book_id = <<"i", "n", "v", "a", "l", "i", "d", "-", "i", "d">>
    /\ ~IsValidObjectId(last.book_id)
    /\ last.pre # << >>
    /\ last.status = 404
    /\ last.detail = "Book not found"

\* an identifier of the in-process store is not in ObjectId format either
\* and is answered 200 with the stored book
C24_WitnessStoredId ==
    /\ last.op = "get_book"
    /\ ~IsValidObjectId(last.book_id)
    /\ last.status = 200
    /\ The(last.body)._id = Some(last.book_id)

\* get_book answers 200 when a stored book has the identifier and 404
\* otherwise, whatever the identifier's format, and changes nothing
C24_FoundOr404 ==
    last.op = "get_book" =>
        /\ storage = last.pre
        /\ last.status = IF \E i \in 1..Len(last.pre) :
                               Has(last.pre[i], "_id") /\ last.pre[i]._id = last.book_id
                         THEN 200 ELSE 404

\* C25: POST /books/ with a body that breaks a constraint of BookCreate
\* (price below 0 or above 1000, star_rating outside 1..5, empty title)
\* answers 422 and the store is the same before and after the request.
C25_InvalidBodyIs422 ==
    (/\ last.op = "create_book"
     /\ \/ last.body.price < 0 \/ last.body.price > 1000
        \/ last.body.star_rating < 1 \/ last.body.star_rating > 5
        \/ last.body.title = << >>) =>
        /\ last.status = 422
        /\ storage = last.pre

\* a body whose only fault is a price above 1000 is refused while the
\* store holds a book
C25_Witness ==
    /\ last.op = "create_book"
    /\ last.body.price > 1000
    /\ last.body.star_rating = 3
    /\ last.body.title # << >>
    /\ last.status = 422
    /\ storage # << >>

\* a body within the constraints is stored and answered 200
C25_WitnessValid ==
    /\ last.op = "create_book"
    /\ last.status = 200
    /\ Len(storage) = Len(last.pre) + 1
    /\ The(last.response).title = last.body.title

\* the add_msg calls that have returned
DoneCalls == {r \in Requests : requests[r].pc = "done"}

\* no add_msg call is between its start and its return
NoCallRunning == \A r \in Requests : requests[r].pc \in {"none", "done"}

\* what C26 says of messages_list after the calls in DoneCalls
MessagesComplete ==
    /\ DOMAIN messages_list = 0..(Cardinality(DoneCalls) - 1)
    /\ \A k \in DOMAIN messages_list : messages_list[k].msg_id = k
    /\ \A r \in DoneCalls :
          /\ requests[r].msg_id \in DOMAIN messages_list
          /\ messages_list[requests[r].msg_id] = requests[r].message
    /\ last.op = "message_items" => last.result.messages = messages_list

\* C26: after n add_msg calls made one after another, messages_list maps
\* each key to a message whose msg_id is that key, the keys are exactly
\* 0..n-1, no message of an earlier call is overwritten, and message_items
\* returns all of them.
C26_MessagesKeptInOrder ==
    (NoCallRunning /\ \A r \in DoneCalls : requests[r].alone) => MessagesComplete

\* three calls, none started while another was between reading the keys
\* and writing, leave the three messages under the keys 0, 1, 2
C26_Witness ==
    /\ Cardinality(DoneCalls) = 3
    /\ \A r \in DoneCalls : requests[r].alone
    /\ DOMAIN messages_list = {0, 1, 2}
    /\ \E r \in DoneCalls : \E q \in DoneCalls :
          requests[r].msg_name # requests[q].msg_name
    /\ last.op = "message_items"

\* calls on two worker threads that both read the keys before either
\* writes return the same msg_id, and the later write replaces the earlier
C26_WitnessOverlap ==
    /\ NoCallRunning
    /\ \E r \in DoneCalls : \E q \in DoneCalls :
          /\ r # q
          /\ ~requests[q].alone
          /\ requests[r].msg_id = requests[q].msg_id
          /\ messages_list[requests[r].msg_id] # requests[r].message
    /\ Cardinality(DOMAIN messages_list) < Cardinality(DoneCalls)

\* whatever the interleaving, every key maps to a message with that msg_id
\* and the keys are 0..k-1 for the k messages held
C26_KeysMatchIds ==
    /\ \A k \in DOMAIN messages_list : messages_list[k].msg_id = k
    /\ DOMAIN messages_list = 0..(Cardinality(DOMAIN messages_list) - 1)

\* C27: deleted documents do not come back.  A falling-back start loads
\* what the snapshot file holds (C14), so the claim is that a
\* close_mongo_connection made with the in-process backend active and every
\* document deleted leaves a snapshot without documents.
C27_DeletedStayDeleted ==
    (/\ last.op = "close_mongo_connection"
     /\ use_memory_storage
     /\ last.pre = << >>) =>
        SnapshotDocuments(books_data_json) = << >>

\* the store was emptied after an earlier close wrote a snapshot of stored
\* documents; this close leaves that snapshot in place
C27_Witness ==
    /\ last.op = "close_mongo_connection"
    /\ use_memory_storage
    /\ last.pre = << >>
    /\ books_data_json = last.file
    /\ SnapshotDocuments(books_data_json) # << >>
    /\ \A i \in 1..Len(SnapshotDocuments(books_data_json)) :
          Has(SnapshotDocuments(books_data_json)[i], "_id")

\* a close with documents in the in-process store writes exactly them
C27_NonEmptyStoreWritten ==
    (/\ last.op = "close_mongo_connection"
     /\ use_memory_storage
     /\ last.pre # << >>) =>
        SnapshotDocuments(books_data_json) = last.pre

\* C28: every document of the in-process store has a non-empty _id in
\* every reachable state, also when the store was filled at a fallback
\* start from a books_data.json that save_to_json wrote.
C28_EveryDocumentHasId ==
    \A i \in 1..Len(storage) : Has(storage[i], "_id") /\ storage[i]._id # << >>

\* a fallback start has loaded the scraper's file: the stored book has the
\* scraped fields and no _id
C28_Witness ==
    /\ last.op = "connect_to_mongo"
    /\ ~last.ping
    /\ last.pre = << >>
    /\ Has(last.file, "source")
    /\ last.file.books = JsonDump(<<ScrapedA>>)
    /\ storage = <<ScrapedA>>
    /\ ~Has(storage[1], "_id")

\* the documents that insert_one and insert_many put into the store carry
\* a non-empty _id
C28_InsertedHaveId ==
    \A i \in 1..Len(storage) :
        origin[i].via \in {"insert_one", "insert_many"} =>
            Has(storage[i], "_id") /\ storage[i]._id # << >>

\* book has title, price, availability and star_rating, none of them empty
IsComplete(book) ==
    /\ Has(book, "title") /\ book.title # << >>
    /\ Has(book, "availability") /\ book.availability # << >>
    /\ Has(book, "price")
    /\ Has(book, "star_rating")

\* what C29 says of a run of clean_incomplete_books
CleanedAsClaimed ==
    /\ Len(storage) = Len(last.pre)
    /\ \A i \in 1..Len(storage) :
          /\ IsComplete(storage[i])
          /\ IsComplete(last.pre[i]) => storage[i] = last.pre[i]
    /\ last.result = Cardinality({i \in 1..Len(last.pre) : ~IsComplete(last.pre[i])})
    /\ last.prev = "clean_incomplete_books" => last.result = 0

\* C29: after clean_incomplete_books every stored book has title, price,
\* availability and star_rating present and non-empty, the books that had
\* all four are unchanged, the returned count is the number of books that
\* lacked one, and a second run right after returns 0.
C29_CleanCompletesBooks ==
    last.op = "clean_incomplete_books" => CleanedAsClaimed

\* two stored books carry the same _id, the first complete and the second
\* not: the run has changed the first and left the second incomplete
C29_Witness ==
    /\ last.op = "clean_incomplete_books"
    /\ \E i \in 1..Len(last.pre) : \E j \in 1..Len(last.pre) :
          /\ i < j
          /\ last.pre[i]._id = last.pre[j]._id
          /\ IsComplete(last.pre[i])
          /\ ~IsComplete(last.pre[j])
          /\ storage[i] # last.pre[i]
          /\ ~IsComplete(storage[j])
    /\ last.result > 0

\* the _id values of the store are present and pairwise distinct
DistinctIds(store) ==
    \A i \in 1..Len(store) :
        /\ Has(store[i], "_id")
        /\ \A j \in 1..Len(store) : store[i]._id = store[j]._id => i = j

\* on a store whose books carry pairwise distinct identifiers the run does
\* what C29 says
C29_DistinctIdsCleaned ==
    (last.op = "clean_incomplete_books" /\ DistinctIds(last.pre)) => CleanedAsClaimed

\* a run over distinct identifiers that filled in two books, followed by a
\* second run that returned 0
C29_WitnessDistinct ==
    /\ last.op = "clean_incomplete_books"
    /\ last.prev = "clean_incomplete_books"
    /\ DistinctIds(storage)
    /\ last.result = 0
    /\ \E i \in 1..Len(storage) : storage[i].title = UnknownTitle
    /\ \E i \in 1..Len(storage) : storage[i].availability = Unknown

\* C30: delete_book reports success only for a deletion it performed
\* itself: of two requests for the same stored book that interleave at
\* find_one and delete_one, the one whose delete_one removed nothing does
\* not answer with success.
C30_SuccessMeansDeleted ==
    \A r \in Requests :
        (requests[r].pc = "done" /\ requests[r].status = 200) =>
            requests[r].deleted_count = 1

\* both requests named the same book of the external collection, both have
\* answered with success, and the delete_one of one of them removed nothing
C30_Witness ==
    /\ ~use_memory_storage
    /\ requests[1].pc = "done" /\ requests[2].pc = "done"
    /\ requests[1].book_id = requests[2].book_id
    /\ requests[1].status = 200 /\ requests[2].status = 200
    /\ requests[1].deleted_count + requests[2].deleted_count = 1
    /\ mongo_books = <<MongoBook("b")>>

\* on the in-process backend a request that answers with success has
\* removed a document
C30_InProcessSuccessMeansDeleted ==
    use_memory_storage =>
        \A r \in Requests :
            (requests[r].pc = "done" /\ requests[r].status = 200) =>
                requests[r].deleted_count = 1

\* on the in-process backend the second of two requests for one stored book
\* answers 404
C30_WitnessInProcess ==
    /\ use_memory_storage
    /\ requests[1].pc = "done" /\ requests[2].pc = "done"
    /\ requests[1].book_id = requests[2].book_id
    /\ requests[1].status = 200 /\ requests[1].deleted_count = 1
    /\ requests[2].status = 404

====
